---- MODULE Spec2Model ----
(***************************************************************************)
(* DATA Tools: the OAuth token refresher (claude-auth-refresh.sh), the      *)
(* per-terminal session manager (claude-session-manager.sh), the setup     *)
(* script the bashrc sources (setup-claude-code.sh) and the installer, as  *)
(* state machines over the files they read and write.                      *)
(***************************************************************************)
EXTENDS Integers, Sequences, FiniteSets, TLC

VARIABLES
    credFile,     \* content of $CREDENTIALS_FILE
    backupFile,   \* content of ${CREDENTIALS_FILE}.backup
    now_ms,       \* the time, in milliseconds since the epoch
    hasJq,        \* whether `command -v jq` succeeds on this machine
    ncmds,        \* number of commands run so far
    last,         \* the last command run: its inputs, return code and output
    ttyOf,        \* per shell: what `tty` prints
    termId,       \* per shell: $TERMINAL_ID, <<>> before the script is sourced
    pc,           \* per shell: where its claude_prompt stands
    loc,          \* per shell: the local variables of claude_prompt
    cli,          \* per shell: the external CLI it started
    stateFiles,   \* ${SESSIONS_DIR}/<terminal id>.json, by terminal id
    historyLog,   \* ~/.claude/history.jsonl, a sequence of lines
    savedArg,     \* by terminal id: the argument of the latest save_session_state
    nruns,        \* runs of claude_prompt and calls of save_session_state by hand so far
    projectsDir,  \* ~/.claude/projects/-home-runner-workspace: transcript files by name
    listing,      \* what the last get_recent_sessions printed
    setup,        \* the shell that reads the bashrc: where it stands in setup-claude-code.sh
    refreshers,   \* per terminal: where its refresh_token stands, and its local variables
    fs,           \* the directories, links and configuration files of the workspace and $HOME
    inst          \* the installer: where it stands, and its local variables

authVars == <<credFile, backupFile, now_ms, hasJq, ncmds, last>>
termVars == <<ttyOf, termId, pc, loc, cli, stateFiles, historyLog, savedArg, nruns>>
regVars == <<projectsDir, listing>>
setupVars == <<setup>>
raceVars == <<refreshers>>
fsVars == <<fs, inst>>
vars == <<credFile, backupFile, now_ms, hasJq, ncmds, last,
          ttyOf, termId, pc, loc, cli, stateFiles, historyLog, savedArg, nruns,
          projectsDir, listing, setup, refreshers, fs, inst>>

(***************************************************************************)
(* Bounds of the model.                                                    *)
(***************************************************************************)
MaxClock == 3            \* the clock advances MaxClock times, half a second each
MaxCmds == 2             \* commands of the token refresher in one behaviour
MaxLog == 2              \* lines the CLIs append to history.jsonl in one behaviour
MaxRuns == 2             \* runs of claude_prompt in one behaviour
MaxSaves == 3            \* calls of save_session_state by hand in one behaviour
MaxScan == 3             \* lines of the short logs given to get_recent_sessions
MaxSessions == 12        \* sessions of the long logs given to get_recent_sessions

(***************************************************************************)
(* Program constants.                                                      *)
(***************************************************************************)
REFRESH_THRESHOLD_HOURS == 2

(***************************************************************************)
(* JSON values.  An optional leaf is <<>> (key absent) or <<v>>.           *)
(***************************************************************************)
Absent == <<>>
Has(leaf) == Len(leaf) > 0
Val(leaf) == leaf[1]

\* File contents.  kind: "nofile" (no such file), "empty" (zero bytes),
\* "garbage" (bytes that are not a JSON document, e.g. a truncated write),
\* "json" (a JSON object).
NoFile == [kind |-> "nofile"]
EmptyFile == [kind |-> "empty"]
GarbageFile == [kind |-> "garbage"]
JsonFile(apiKey, oauth) == [kind |-> "json", primaryApiKey |-> apiKey, claudeAiOauth |-> oauth]
OAuth(at, rt, exp, sub) ==
    [accessToken |-> at, refreshToken |-> rt, expiresAt |-> exp, subscriptionType |-> sub]

(***************************************************************************)
(* parse_json: the text the shell gets back.  txt is the printed string;   *)
(* a number is printed as txt = "num" with its value in num.               *)
(*   jq -r ".a.b":  not a JSON document -> error, nothing printed;         *)
(*                  a or b missing, or JSON null -> "null".                *)
(*   node fallback: not a JSON document, or a missing -> catch -> "";      *)
(*                  b missing -> console.log(undefined) -> "undefined".    *)
(***************************************************************************)
Str(s) == [txt |-> s, num |-> 0]
Num(n) == [txt |-> "num", num |-> n]
IsEmptyOrNull(t) == t.txt = "" \/ t.txt = "null"      \* [ -z "$x" ] || [ "$x" = "null" ]
\* bash arithmetic on the text: a number is itself, a bare word such as
\* null or undefined is an unset variable and evaluates to 0.
Arith(t) == IF t.txt = "num" THEN t.num ELSE 0

parse_json(jq, docOk, parentOk, leaf, isNum) ==
    IF ~docOk THEN Str("")
    ELSE IF ~parentOk THEN (IF jq THEN Str("null") ELSE Str(""))
    ELSE IF ~Has(leaf) THEN (IF jq THEN Str("null") ELSE Str("undefined"))
    ELSE IF isNum THEN Num(Val(leaf)) ELSE Str(Val(leaf))

\* parse_json "$creds" "claudeAiOauth.<field>"
CredField(jq, cred, field, isNum) ==
    LET docOk == cred.kind = "json"
        parentOk == docOk /\ Has(cred.claudeAiOauth)
        leaf == IF parentOk THEN Val(cred.claudeAiOauth)[field] ELSE Absent
    IN parse_json(jq, docOk, parentOk, leaf, isNum)

\* parse_json "$response" "<field>" (a top-level key: no parent to miss)
RespField(jq, resp, field, isNum) ==
    LET docOk == resp.kind = "json"
        leaf == IF docOk THEN resp[field] ELSE Absent
    IN parse_json(jq, docOk, TRUE, leaf, isNum)

\* date +%s: whole seconds
date_s(now) == now \div 1000

\* lines 52-54: $(($(date +%s) * 1000))
get_current_time_ms(now) == date_s(now) * 1000

\* bash $((a / b)) truncates toward zero
BashDiv(a, b) == IF a >= 0 THEN a \div b ELSE -((-a) \div b)

(***************************************************************************)
(* check_token_status: the word it prints and its return code.             *)
(***************************************************************************)
\* line 79: [ $remaining_ms -le 0 ]
IsExpired(remaining_ms) == remaining_ms <= 0

StatusWord(tag, rc) == [tag |-> tag, hours |-> 0, rc |-> rc]
StatusHours(h) == [tag |-> "hours", hours |-> h, rc |-> 0]

check_token_status(jq, cred, now) ==
    IF cred.kind = "nofile" THEN StatusWord("no_file", 1)
    ELSE IF cred.kind = "empty" THEN StatusWord("empty_file", 1)
    ELSE LET expires_at == CredField(jq, cred, "expiresAt", TRUE)
             current_time == get_current_time_ms(now)
             remaining_ms == Arith(expires_at) - current_time
             remaining_hours == BashDiv(BashDiv(BashDiv(remaining_ms, 1000), 60), 60)
         IN IF IsEmptyOrNull(expires_at) THEN StatusWord("no_expiry", 1)
            ELSE IF IsExpired(remaining_ms) THEN StatusWord("expired", 1)
            ELSE StatusHours(remaining_hours)

(***************************************************************************)
(* The token endpoint's answer, as curl -s prints it.                      *)
(*   kind "none":    transport error, nothing printed                      *)
(*   kind "garbage": a body that is not JSON (a proxy's HTML error page)   *)
(*   kind "json":    a JSON object with optional error, access_token,      *)
(*                   refresh_token, expires_in                             *)
(***************************************************************************)
NoResponse == [kind |-> "none"]
GarbageResponse == [kind |-> "garbage"]
JsonResponse(e, at, rt, ein) ==
    [kind |-> "json", error |-> e, access_token |-> at, refresh_token |-> rt, expires_in |-> ein]

(***************************************************************************)
(* refresh_token, step by step.                                            *)
(***************************************************************************)
\* lines 137-138: cp "$CREDENTIALS_FILE" "${CREDENTIALS_FILE}.backup" 2>/dev/null
\* cp: "ok"; "fail" (destination cannot be opened: it is left as it was);
\* "truncated" (destination opened and truncated, then the write fails).
\* Its exit status is not looked at.
BackupStep(cred, backup, cp) ==
    IF cred.kind = "nofile" THEN backup
    ELSE IF cp = "ok" THEN cred
    ELSE IF cp = "truncated" THEN EmptyFile
    ELSE backup

\* lines 143-146: the record node builds from the file it reads back
NewCreds(cred, access, refresh, expires) ==
    [cred EXCEPT !.claudeAiOauth =
        << [Val(@) EXCEPT !.accessToken = <<access>>,
                          !.refreshToken = <<refresh>>,
                          !.expiresAt = <<expires>>] >>]

\* node can build the record only from a JSON file with a claudeAiOauth object
CanUpdate(cred) == cred.kind = "json" /\ Has(cred.claudeAiOauth)

\* the outcome of the node step: wr is what writeFileSync does, "ok",
\* "fail" (the file cannot be opened for writing: untouched) or "truncated"
\* (opened and truncated, then the write fails)
WriteOutcome(cred, wr) == IF CanUpdate(cred) THEN wr ELSE "fail"

\* lines 141-148
WriteStep(cred, access, refresh, expires, wr) ==
    IF WriteOutcome(cred, wr) = "ok" THEN NewCreds(cred, access, refresh, expires)
    ELSE IF WriteOutcome(cred, wr) = "truncated" THEN EmptyFile
    ELSE cred

\* line 155: mv "${CREDENTIALS_FILE}.backup" "$CREDENTIALS_FILE" 2>/dev/null
\* the file and the backup after it; mv fails when there is no backup
RestoreStep(cred, backup) ==
    IF backup.kind # "nofile"
    THEN [cred |-> backup, backup |-> NoFile]
    ELSE [cred |-> cred, backup |-> backup]

ResponseVerdictNoErrorCheck(jq, resp) ==
    LET new_access_token == RespField(jq, resp, "access_token", FALSE)
    IN IF resp.kind = "none" THEN "no_response"
       ELSE IF IsEmptyOrNull(new_access_token) THEN "no_access_token"
       ELSE "ok"

\* lines 106-126: what refresh_token makes of the response
\*   "no_response", "error", "no_access_token" or "ok"
ResponseVerdict(jq, resp) ==
    LET error == RespField(jq, resp, "error", FALSE)
        new_access_token == RespField(jq, resp, "access_token", FALSE)
    IN IF resp.kind = "none" THEN "no_response"
       ELSE IF error.txt # "" /\ error.txt # "null" THEN "error"
       ELSE IF IsEmptyOrNull(new_access_token) THEN "no_access_token"
       ELSE "ok"

\* What one call leaves behind: the two files, the return code, the number of
\* requests sent, the line written to the log, and the inputs it consumed.
RefreshResult(cred, backup, rc, nreq, log, resp, cp, wr) ==
    [cred |-> cred, backup |-> backup, rc |-> rc, nreq |-> nreq, log |-> log,
     resp |-> resp, cp |-> cp, wr |-> wr]

\* lines 89-159
refresh_token(jq, cred, backup, now, resp, cp, wr) ==
    LET refresh_tok == CredField(jq, cred, "refreshToken", FALSE)
        verdict == ResponseVerdict(jq, resp)
        new_access_token == RespField(jq, resp, "access_token", FALSE)
        resp_refresh_token == RespField(jq, resp, "refresh_token", FALSE)
        expires_in == RespField(jq, resp, "expires_in", TRUE)
        current_time == get_current_time_ms(now)
        new_expires_at == current_time + Arith(expires_in) * 1000
        new_refresh_token == IF IsEmptyOrNull(resp_refresh_token)
                             THEN refresh_tok.txt ELSE resp_refresh_token.txt
        backed == BackupStep(cred, backup, cp)
        outcome == WriteOutcome(cred, wr)
        written == WriteStep(cred, new_access_token.txt, new_refresh_token, new_expires_at, wr)
        restored == RestoreStep(written, backed)
    IN IF IsEmptyOrNull(refresh_tok)
       THEN RefreshResult(cred, backup, 1, 0, "ERROR: No refresh token found",
                          NoResponse, "unused", "unused")
       ELSE IF verdict = "no_response"
       THEN RefreshResult(cred, backup, 1, 1, "ERROR: No response from OAuth endpoint",
                          resp, "unused", "unused")
       ELSE IF verdict = "error"
       THEN RefreshResult(cred, backup, 1, 1, "ERROR: OAuth refresh failed",
                          resp, "unused", "unused")
       ELSE IF verdict = "no_access_token"
       THEN RefreshResult(cred, backup, 1, 1, "ERROR: No access token in response",
                          resp, "unused", "unused")
       ELSE IF outcome = "ok"
       THEN RefreshResult(written, backed, 0, 1, "SUCCESS: Token refreshed",
                          resp, cp, outcome)
       ELSE RefreshResult(restored.cred, restored.backup, 1, 1,
                          "ERROR: Failed to update credentials file",
                          resp, cp, outcome)

(***************************************************************************)
(* auto_refresh_if_needed (lines 162-199): what it prints, what it         *)
(* returns, how often it calls refresh_token, and what refresh_token did.  *)
(***************************************************************************)
\* line 166: the statuses for which nothing is done
SkipsRefreshExpired(tag) == tag \in {"no_file", "empty_file", "no_expiry", "expired"}
SkipsRefresh(tag) == tag \in {"no_file", "empty_file", "no_expiry"}

\* line 183: [ "$remaining" -lt "$REFRESH_THRESHOLD_HOURS" ]
BelowThresholdLe(remaining) == remaining <= REFRESH_THRESHOLD_HOURS
BelowThreshold(remaining) == remaining < REFRESH_THRESHOLD_HOURS

Line(msg, st) == [msg |-> msg, st |-> st]
NoStatus == StatusWord("none", 0)
NoRefresh(cred, backup) ==
    RefreshResult(cred, backup, 0, 0, "", NoResponse, "unused", "unused")

AutoResult(r, rc, out, ncalls, status) ==
    [r |-> r, rc |-> rc, out |-> out, ncalls |-> ncalls, status |-> status]

auto_refresh_if_needed(jq, cred, backup, now, resp, cp, wr) ==
    LET status == check_token_status(jq, cred, now)
        r == refresh_token(jq, cred, backup, now, resp, cp, wr)
        new_status == check_token_status(jq, r.cred, now)
    IN IF SkipsRefresh(status.tag)
       THEN AutoResult(NoRefresh(cred, backup), 1, <<>>, 0, status)
       ELSE IF status.tag = "expired"
       THEN IF r.rc = 0
            THEN AutoResult(r, 0, <<Line("Token expired, attempting refresh...", NoStatus),
                                    Line("Token refreshed successfully", NoStatus)>>, 1, status)
            ELSE AutoResult(r, 1, <<Line("Token expired, attempting refresh...", NoStatus),
                                    Line("Token refresh failed - run: claude login", NoStatus)>>,
                            1, status)
       ELSE IF BelowThreshold(status.hours)
       THEN IF r.rc = 0
            THEN AutoResult(r, 0, <<Line("Token expires in, refreshing...", status),
                                    Line("Token refreshed", new_status)>>, 1, status)
            ELSE AutoResult(r, 0, <<Line("Token expires in, refreshing...", status),
                                    Line("Refresh failed, remaining", status)>>, 1, status)
       ELSE AutoResult(NoRefresh(cred, backup), 0, <<>>, 0, status)

(***************************************************************************)
(* The inputs of the model.                                                *)
(***************************************************************************)
\* expiry instants (epoch ms) around the instants the clock can show and
\* around the two-hour threshold after them
Expiries == {1000, 1400, 7201000, 7201001, 10800000}

OAuthRecords ==
    { OAuth(<<"at0">>, rt, exp, "max") :
        rt \in {Absent, <<"rt0">>},
        exp \in {Absent} \cup { <<e>> : e \in Expiries } }

CredFiles ==
    {NoFile, EmptyFile, GarbageFile}
    \cup { JsonFile(<<"sk-ant-key">>, Absent) }
    \cup { JsonFile(<<"sk-ant-key">>, <<o>>) : o \in OAuthRecords }

Responses ==
    {NoResponse, GarbageResponse,
     JsonResponse(<<"invalid_grant">>, Absent, Absent, Absent),
     JsonResponse(<<"invalid_grant">>, <<"at1">>, <<"rt1">>, <<3600>>),
     JsonResponse(Absent, Absent, <<"rt1">>, <<3600>>),
     JsonResponse(Absent, Absent, Absent, Absent)}
    \cup { JsonResponse(Absent, <<"at1">>, Absent, <<3600>>),
           JsonResponse(Absent, <<"at1">>, <<"rt1">>, <<3600>>),
           JsonResponse(Absent, <<"at1">>, <<"rt1">>, <<28800>>) }

CpOutcomes == {"ok", "fail", "truncated"}
WrOutcomes == {"ok", "fail", "truncated"}

\* The inputs a call consumes: a response only if a request is sent, outcomes
\* of cp and of the write only if the steps are reached.
SendsRequest(jq, cred) == ~IsEmptyOrNull(CredField(jq, cred, "refreshToken", FALSE))
ResponsesFor(jq, cred, calls) ==
    IF calls /\ SendsRequest(jq, cred) THEN Responses ELSE {NoResponse}
CpOutcomesFor(jq, resp) == IF ResponseVerdict(jq, resp) = "ok" THEN CpOutcomes ELSE {"unused"}
WrOutcomesFor(jq, resp) == IF ResponseVerdict(jq, resp) = "ok" THEN WrOutcomes ELSE {"unused"}
\* auto_refresh_if_needed calls refresh_token (lines 170-172, 183-185)
AutoCalls(jq, cred, now) ==
    LET status == check_token_status(jq, cred, now)
    IN /\ ~SkipsRefresh(status.tag)
       /\ status.tag = "expired" \/ BelowThreshold(status.hours)

(***************************************************************************)
(* State machine of the token refresher.                                   *)
(***************************************************************************)
Last(op, a, pre, preBackup, now) ==
    [op |-> op, rc |-> a.rc, out |-> a.out, ncalls |-> a.ncalls, status |-> a.status,
     rrc |-> a.r.rc, nreq |-> a.r.nreq, log |-> a.r.log, resp |-> a.r.resp, cp |-> a.r.cp, wr |-> a.r.wr,
     preCred |-> pre, preBackup |-> preBackup, now_ms |-> now]

\* claude-auth-refresh.sh --auto, or with no argument (lines 222-228)
Auto ==
    \E resp \in ResponsesFor(hasJq, credFile, AutoCalls(hasJq, credFile, now_ms)) :
    \E cp \in CpOutcomesFor(hasJq, resp), wr \in WrOutcomesFor(hasJq, resp) :
        LET a == auto_refresh_if_needed(hasJq, credFile, backupFile, now_ms, resp, cp, wr)
        IN /\ ncmds < MaxCmds
           /\ ncmds' = ncmds + 1
           /\ credFile' = a.r.cred
           /\ backupFile' = a.r.backup
           /\ last' = Last("auto", a, credFile, backupFile, now_ms)
           /\ UNCHANGED <<now_ms, hasJq>>
           /\ UNCHANGED <<termVars, regVars, setupVars, raceVars, fsVars>>

\* claude-auth-refresh.sh --force (lines 213-221)
Force ==
    \E resp \in ResponsesFor(hasJq, credFile, TRUE) :
    \E cp \in CpOutcomesFor(hasJq, resp), wr \in WrOutcomesFor(hasJq, resp) :
        LET r == refresh_token(hasJq, credFile, backupFile, now_ms, resp, cp, wr)
            out == IF r.rc = 0
                   THEN <<Line("Forcing token refresh...", NoStatus),
                          Line("Token refreshed", NoStatus)>>
                   ELSE <<Line("Forcing token refresh...", NoStatus),
                          Line("Refresh failed", NoStatus)>>
        IN /\ ncmds < MaxCmds
           /\ ncmds' = ncmds + 1
           /\ credFile' = r.cred
           /\ backupFile' = r.backup
           /\ last' = Last("force", AutoResult(r, r.rc, out, 1, NoStatus),
                           credFile, backupFile, now_ms)
           /\ UNCHANGED <<now_ms, hasJq>>
           /\ UNCHANGED <<termVars, regVars, setupVars, raceVars, fsVars>>

\* claude-auth-refresh.sh --status (lines 203-212)
Status ==
    LET st == check_token_status(hasJq, credFile, now_ms)
    IN /\ ncmds < MaxCmds
       /\ ncmds' = ncmds + 1
       /\ last' = Last("status",
                       AutoResult(NoRefresh(credFile, backupFile), 0,
                                  <<Line("status", st)>>, 0, st),
                       credFile, backupFile, now_ms)
       /\ UNCHANGED <<credFile, backupFile, now_ms, hasJq>>
       /\ UNCHANGED <<termVars, regVars, setupVars, raceVars, fsVars>>

\* the clock advances
Tick ==
    /\ now_ms < MaxClock * 500
    /\ now_ms' = now_ms + 500
    /\ UNCHANGED <<credFile, backupFile, hasJq, ncmds, last>>
    /\ UNCHANGED <<termVars, regVars, setupVars, raceVars, fsVars>>

(***************************************************************************)
(* The session manager (claude-session-manager.sh).  Text the script       *)
(* edits is a sequence of one-character strings.                           *)
(***************************************************************************)
Shells == {1, 2}
Pid(s) == 100 + s                      \* $$ of shell s

DevPts0 == <<"/", "d", "e", "v", "/", "p", "t", "s", "/", "0">>
DevPts1 == <<"/", "d", "e", "v", "/", "p", "t", "s", "/", "1">>
DevTty1 == <<"/", "d", "e", "v", "/", "t", "t", "y", "1">>
NotATty == <<"n", "o", "t", " ", "a", " ", "t", "t", "y">>    \* tty without a terminal
NoOutput == <<>>                                            \* no tty command
Devices == {DevPts0, DevPts1, DevTty1}
TtyOutputs == Devices \cup {NotATty, NoOutput}

\* the first position at which pat occurs in str, 0 if none
FirstMatch(str, pat) ==
    LET hits == { i \in 1..Len(str) :
                    /\ i + Len(pat) - 1 <= Len(str)
                    /\ SubSeq(str, i, i + Len(pat) - 1) = pat }
    IN IF hits = {} THEN 0 ELSE CHOOSE i \in hits : \A j \in hits : i <= j

\* sed 's|/dev/||': the first occurrence of /dev/ is removed
SedStripDev(str) ==
    LET pat == <<"/", "d", "e", "v", "/">>
        i == FirstMatch(str, pat)
    IN IF i = 0 THEN str
       ELSE SubSeq(str, 1, i - 1) \o SubSeq(str, i + Len(pat), Len(str))

\* tr '/' '-'
TrSlash(str) == [i \in 1..Len(str) |-> IF str[i] = "/" THEN "-" ELSE str[i]]

DigitChar(d) == <<"0", "1", "2", "3", "4", "5", "6", "7", "8", "9">>[d + 1]
RECURSIVE Decimal(_)
Decimal(n) == IF n < 10 THEN <<DigitChar(n)>>
              ELSE Decimal(n \div 10) \o <<DigitChar(n % 10)>>

ShellPid(pid) == <<"s", "h", "e", "l", "l", "-">> \o Decimal(pid)

get_terminal_id_pid(ttyOut, pid) == ShellPid(pid)

\* lines 246-253
get_terminal_id(ttyOut, pid) ==
    LET tty_name == TrSlash(SedStripDev(ttyOut))
    IN IF tty_name # <<>> /\ tty_name # <<"n", "o", "t">>
       THEN tty_name
       ELSE ShellPid(pid)

\* every terminal id a shell of the model can get
TermIds == { get_terminal_id(o, Pid(s)) : o \in TtyOutputs, s \in Shells }
                \cup { ShellPid(Pid(s)) : s \in Shells }

(***************************************************************************)
(* The prompt log.  A line is a JSON object {sessionId, timestamp,         *)
(* display}; ok = FALSE is a line that does not parse (a truncated write), *)
(* which may or may not still hold the text "sessionId":"...".             *)
(***************************************************************************)
SessionOrder == <<"sA", "sB", "sC">>
SessionIds == { SessionOrder[i] : i \in 1..Len(SessionOrder) }
LogLine(id, ts, ok) == [sessionId |-> id, timestamp |-> ts, display |-> "prompt", ok |-> ok]

\* tail -1 history.jsonl | grep -oP '"sessionId":"[^"]+"' | cut -d'"' -f4
\* (lines 502, 507, 541): the id in the text of the last line, "" if the
\* log is missing or empty or its last line holds none
TailSessionId(log) ==
    IF Len(log) = 0 THEN ""
    ELSE IF Has(log[Len(log)].sessionId) THEN Val(log[Len(log)].sessionId)
    ELSE ""

\* lines 276-305: the ids of the lines that parse, in order of first occurrence
RECURSIVE ScanIds(_, _)
ScanIds(log, seen) ==
    IF Len(log) = 0 THEN seen
    ELSE LET j == Head(log)
             known == \E i \in 1..Len(seen) : seen[i] = Val(j.sessionId)
         IN IF ~j.ok \/ ~Has(j.sessionId) \/ known
            THEN ScanIds(Tail(log), seen)
            ELSE ScanIds(Tail(log), Append(seen, Val(j.sessionId)))

\* lines 283-303: lastSeen of a session, the timestamp of its first line
\* raised by every later line with a greater one
RECURSIVE LastSeen(_, _, _)
LastSeen(log, id, acc) ==
    IF Len(log) = 0 THEN acc
    ELSE LET j == Head(log)
             mine == j.ok /\ Has(j.sessionId) /\ Val(j.sessionId) = id
         IN LastSeen(Tail(log), id,
                     IF mine /\ (acc = 0 \/ j.timestamp > acc) THEN j.timestamp ELSE acc)

\* lines 335-337: Array.sort is stable: by lastSeen descending, ties in
\* insertion order; slice(0, 10)
SortByLastSeen(ids, log) ==
    LET sorted[v \in Seq(SessionIds)] ==
            IF Len(v) = 0 THEN <<>>
            ELSE LET best == CHOOSE i \in 1..Len(v) :
                                \A k \in 1..Len(v) :
                                    \/ LastSeen(log, v[i], 0) > LastSeen(log, v[k], 0)
                                    \/ LastSeen(log, v[i], 0) = LastSeen(log, v[k], 0) /\ i <= k
                     rest == SubSeq(v, 1, best - 1) \o SubSeq(v, best + 1, Len(v))
                 IN <<v[best]>> \o sorted[rest]
    IN sorted[ids]

\* get_recent_sessions | grep "^ID|" | cut -d'|' -f2   (line 517)
RecentSessionIds(log) ==
    LET sorted == SortByLastSeen(ScanIds(log, <<>>), log)
    IN SubSeq(sorted, 1, IF Len(sorted) < 10 THEN Len(sorted) ELSE 10)

(***************************************************************************)
(* The terminal state file.                                                *)
(***************************************************************************)
NoState == [exists |-> FALSE]
StateRecord(id, flags, tid, ts) ==
    [exists |-> TRUE, sessionId |-> id, flags |-> flags, terminalId |-> tid, timestamp |-> ts]

\* lines 436-448: the file is written whatever session_id is; the here-document
\* puts session_id, flags and TERMINAL_ID between double quotes as they are
save_session_state(files, tid, session_id, flags, ts) ==
    [files EXCEPT ![tid] = StateRecord(session_id, flags, tid, ts)]

DefaultFlags == "--dangerously-skip-permissions"
QuotedFlags == "--append-system-prompt \"be brief\""

\* the strings of the model that hold a double quote or a backslash: put
\* between double quotes as they are, they do not make a JSON string
BreaksJson(str) == str \in {QuotedFlags}

\* require('${STATE_FILE}') parses the file as JSON
StateFileParses(file) ==
    /\ ~BreaksJson(file.sessionId)
    /\ ~BreaksJson(file.flags)
    /\ \A i \in 1..Len(file.terminalId) : file.terminalId[i] \notin {"\"", "\\"}

\* lines 451-455: try{console.log(require(STATE_FILE).sessionId||'')}catch(e){}
get_terminal_last_session(files, tid) ==
    IF files[tid].exists /\ StateFileParses(files[tid]) THEN files[tid].sessionId ELSE ""

(***************************************************************************)
(* claude_prompt (lines 458-553), one action per blocking point: the menu  *)
(* read, the list read, and the external CLI.                              *)
(***************************************************************************)
NoLocals == [last_session |-> "", choice |-> Absent, shown |-> <<>>, session_ids |-> <<>>,
             session_num |-> Absent, selected_id |-> "", branch |-> "none"]
NoCli == [mode |-> "none", arg |-> "", session |-> "", wrote |-> FALSE, count |-> 0]

\* a new session gets an id that no line of the log and no CLI has used: the
\* first such id of SessionOrder
FreshIdx ==
    { i \in 1..Len(SessionOrder) :
        /\ \A k \in 1..Len(historyLog) : historyLog[k].sessionId # <<SessionOrder[i]>>
        /\ \A t \in Shells : cli[t].session # SessionOrder[i] }
FreshIds ==
    { SessionOrder[i] : i \in { j \in FreshIdx : \A k \in FreshIdx : j <= k } }

Choices == {"c", "C", "", "r", "R", "n", "N", "s", "S", "x"}

\* what the user types at "Enter number (or 'q' to cancel)": q, nothing, a
\* decimal number, "$", or "foo"
NumInputs == {[kind |-> "q", n |-> 0], [kind |-> "empty", n |-> 0],
              [kind |-> "dollar", n |-> 0], [kind |-> "foo", n |-> 0]}
                 \cup { [kind |-> "num", n |-> k] : k \in 0..(MaxLog + 1) }

\* echo "$session_ids" | sed -n "${session_num}p"   (line 526): the line
\* of that number; for "$p" the last line; nothing for "0p" and "foop",
\* which sed rejects, and for a number past the last line
SedSelect(ids, num) ==
    IF num.kind = "num" /\ 1 <= num.n /\ num.n <= Len(ids) THEN ids[num.n]
    ELSE IF num.kind = "dollar" /\ Len(ids) > 0 THEN ids[Len(ids)]
    ELSE ""

\* lines 255-256: the script is sourced, TERMINAL_ID and STATE_FILE are set
Source(s) ==
    /\ pc[s] = "start"
    /\ termId' = [termId EXCEPT ![s] = get_terminal_id(ttyOf[s], Pid(s))]
    /\ pc' = [pc EXCEPT ![s] = "sourced"]
    /\ UNCHANGED <<ttyOf, loc, cli, stateFiles, historyLog, savedArg, nruns>>
    /\ UNCHANGED <<authVars, regVars, setupVars, raceVars, fsVars>>

\* lines 458-488, at the end of sourcing (line 572) or by claude-menu
\* (line 570): return at once in a shell that is not interactive or has no
\* claude; else read the state file and show the menu
PickerStart(s) ==
    /\ pc[s] \in {"sourced", "done"}
    /\ nruns < MaxRuns
    /\ nruns' = nruns + 1
    /\ \E usable \in BOOLEAN :
         IF usable
         THEN /\ loc' = [loc EXCEPT ![s] =
                    [NoLocals EXCEPT !.last_session =
                        get_terminal_last_session(stateFiles, termId[s])]]
              /\ pc' = [pc EXCEPT ![s] = "prompt"]
         ELSE /\ loc' = [loc EXCEPT ![s] = NoLocals]
              /\ pc' = [pc EXCEPT ![s] = "done"]
    /\ cli' = [cli EXCEPT ![s] = NoCli]
    /\ UNCHANGED <<ttyOf, termId, stateFiles, historyLog, savedArg>>
    /\ UNCHANGED <<authVars, regVars, setupVars, raceVars, fsVars>>

\* line 496: c|C|"")
ContinuesLastNoEnter(choice) == choice \in {"c", "C"}
ContinuesLastAlsoS(choice) == choice \in {"c", "C", "", "s"}
ContinuesLast(choice) == choice \in {"c", "C", ""}

StartCliTwice(s, mode, arg, session, branch) ==
    /\ cli' = [cli EXCEPT ![s] = [mode |-> mode, arg |-> arg, session |-> session,
                                  wrote |-> FALSE, count |-> @.count + 2]]
    /\ pc' = [pc EXCEPT ![s] = "cli"]
StartCli(s, mode, arg, session, branch) ==
    /\ cli' = [cli EXCEPT ![s] = [mode |-> mode, arg |-> arg, session |-> session,
                                  wrote |-> FALSE, count |-> @.count + 1]]
    /\ pc' = [pc EXCEPT ![s] = "cli"]

\* lines 490-552: read -t 30 -n 1 choice ("" is Enter or the timeout)
PickerChoice(s) ==
    /\ pc[s] = "prompt"
    /\ \E choice \in Choices :
         IF ContinuesLast(choice) /\ loc[s].last_session # ""
         THEN /\ StartCli(s, "resume", loc[s].last_session, loc[s].last_session, "continue")
              /\ loc' = [loc EXCEPT ![s].choice = <<choice>>, ![s].branch = "continue"]
         ELSE IF ContinuesLast(choice) \/ choice \in {"n", "N"}
         THEN /\ \E fresh \in FreshIds : StartCli(s, "new", "", fresh, "new")
              /\ loc' = [loc EXCEPT ![s].choice = <<choice>>, ![s].branch = "new"]
         ELSE IF choice \in {"r", "R"}
         THEN /\ loc' = [loc EXCEPT ![s].choice = <<choice>>,
                                     ![s].shown = RecentSessionIds(historyLog)]
              /\ pc' = [pc EXCEPT ![s] = "listed"]
              /\ UNCHANGED cli
         ELSE /\ loc' = [loc EXCEPT ![s].choice = <<choice>>]
              /\ pc' = [pc EXCEPT ![s] = "done"]
              /\ UNCHANGED cli
    /\ UNCHANGED <<ttyOf, termId, stateFiles, historyLog, savedArg>>
    /\ UNCHANGED <<nruns>> /\ UNCHANGED <<authVars, regVars, setupVars, raceVars, fsVars>>

\* line 517: the ids are read again, after show_sessions has printed the list
CollectIds(s) ==
    /\ pc[s] = "listed"
    /\ loc' = [loc EXCEPT ![s].session_ids = RecentSessionIds(historyLog)]
    /\ pc' = [pc EXCEPT ![s] = "asknum"]
    /\ UNCHANGED <<ttyOf, termId, cli, stateFiles, historyLog, savedArg, nruns>>
    /\ UNCHANGED <<authVars, regVars, setupVars, raceVars, fsVars>>

\* lines 519-534
EnterNumber(s) ==
    /\ pc[s] = "asknum"
    /\ \E num \in NumInputs :
         LET selected_id == SedSelect(loc[s].session_ids, num)
         IN IF num.kind \in {"q", "empty"} \/ selected_id = ""
            THEN /\ pc' = [pc EXCEPT ![s] = "done"]
                 /\ loc' = [loc EXCEPT ![s].session_num = <<num>>,
                                        ![s].shown = <<>>, ![s].session_ids = <<>>]
                 /\ UNCHANGED cli
            ELSE /\ StartCli(s, "resume", selected_id, selected_id, "resume")
                 /\ loc' = [loc EXCEPT ![s].session_num = <<num>>,
                                        ![s].selected_id = selected_id,
                                        ![s].branch = "resume"]
    /\ UNCHANGED <<ttyOf, termId, stateFiles, historyLog, savedArg>>
    /\ UNCHANGED <<nruns>> /\ UNCHANGED <<authVars, regVars, setupVars, raceVars, fsVars>>

\* the CLI running in shell s appends a prompt line: whole, or cut short
\* after or before its sessionId
CliAppend(s) ==
    /\ pc[s] = "cli"
    /\ Len(historyLog) < MaxLog
    /\ \E ok \in BOOLEAN, withId \in BOOLEAN :
         /\ (ok => withId)
         /\ historyLog' = Append(historyLog,
                LogLine(IF withId THEN <<cli[s].session>> ELSE Absent,
                        Len(historyLog) + 1, ok))
         /\ cli' = [cli EXCEPT ![s].wrote = @ \/ withId]
    /\ UNCHANGED <<ttyOf, termId, pc, loc, stateFiles, savedArg, nruns>>
    /\ UNCHANGED <<authVars, regVars, setupVars, raceVars, fsVars>>

\* the CLI exits and claude_prompt saves the terminal state: the id in the
\* last line of the log (lines 502, 507, 541) or the selected id (line 531)
CliExit(s) ==
    /\ pc[s] = "cli"
    /\ LET session_id == IF loc[s].branch = "resume" THEN loc[s].selected_id
                         ELSE TailSessionId(historyLog)
       IN /\ stateFiles' = save_session_state(stateFiles, termId[s], session_id,
                                              DefaultFlags, date_s(now_ms))
          /\ savedArg' = [savedArg EXCEPT ![termId[s]] = <<session_id>>]
    /\ pc' = [pc EXCEPT ![s] = "done"]
    /\ loc' = [loc EXCEPT ![s].shown = <<>>, ![s].session_ids = <<>>]
    /\ UNCHANGED <<ttyOf, termId, cli, historyLog, nruns>>
    /\ UNCHANGED <<authVars, regVars, setupVars, raceVars, fsVars>>

\* save_session_state called by hand (it is exported, line 563)
ManualSave(s) ==
    /\ pc[s] \in {"sourced", "done"}
    /\ nruns < MaxSaves
    /\ nruns' = nruns + 1
    /\ \E session_id \in SessionIds \cup {""}, flags \in {DefaultFlags, QuotedFlags} :
         /\ stateFiles' = save_session_state(stateFiles, termId[s], session_id, flags, date_s(now_ms))
         /\ savedArg' = [savedArg EXCEPT ![termId[s]] = <<session_id>>]
    /\ UNCHANGED <<ttyOf, termId, pc, loc, cli, historyLog>>
    /\ UNCHANGED <<authVars, regVars, setupVars, raceVars, fsVars>>

NextTerm ==
    \E s \in Shells :
        \/ Source(s) \/ PickerStart(s) \/ PickerChoice(s) \/ CollectIds(s)
        \/ EnterNumber(s) \/ CliAppend(s) \/ CliExit(s)

NextIds == \E s \in Shells : Source(s) \/ ManualSave(s)

(***************************************************************************)
(* The session registry reader: get_recent_sessions (lines 259-377).       *)
(* Session ids and file names are sequences of one-character strings.      *)
(***************************************************************************)
\* line 337: slice(0, 10)
ListLimit == 10

\* a line of history.jsonl that parses: {sessionId, timestamp, display}
PromptLine(id, ts, display) ==
    [sessionId |-> <<id>>, timestamp |-> ts, display |-> display, ok |-> TRUE]
\* a line that parses and has no sessionId
NoIdLine(ts, display) ==
    [sessionId |-> Absent, timestamp |-> ts, display |-> display, ok |-> TRUE]
\* a line cut short, JSON.parse throws on it; it may still hold a sessionId
TornLine(id, ts) ==
    [sessionId |-> id, timestamp |-> ts, display |-> "", ok |-> FALSE]

\* line 280: JSON.parse(line) inside try { } catch(e) {}
ParsesAnything(j) == TRUE
Parses(j) == j.ok

\* a || b on strings
OrElse(a, b) == IF a # "" THEN a ELSE b

\* lines 284-292: the summary made at the first occurrence of an id
NewSummary(j) ==
    [id |-> Val(j.sessionId),
     firstSeen |-> j.timestamp, lastSeen |-> j.timestamp,
     firstPrompt |-> OrElse(j.display, ""), lastPrompt |-> OrElse(j.display, ""),
     messageCount |-> 0, fileSize |-> Absent]

\* lines 296-303 without the update of first-seen
UpdateSummaryLastOnly(d, j) ==
    IF j.timestamp > d.lastSeen
    THEN [d EXCEPT !.lastSeen = j.timestamp,
                   !.lastPrompt = OrElse(j.display, d.lastPrompt)]
    ELSE d

\* lines 296-303
UpdateSummary(d, j) ==
    LET d1 == IF j.timestamp < d.firstSeen
              THEN [d EXCEPT !.firstSeen = j.timestamp,
                             !.firstPrompt = OrElse(j.display, d.firstPrompt)]
              ELSE d
    IN IF j.timestamp > d1.lastSeen
       THEN [d1 EXCEPT !.lastSeen = j.timestamp,
                       !.lastPrompt = OrElse(j.display, d1.lastPrompt)]
       ELSE d1

\* the place of id in the Map, 0 if it has none
MapIndex(data, id) ==
    LET at == { i \in 1..Len(data) : data[i].id = id }
    IN IF at = {} THEN 0 ELSE CHOOSE i \in at : TRUE

\* lines 278-305: the scan; sessionData as the sequence of its values in
\* insertion order
RECURSIVE ScanLines(_, _)
ScanLines(lines, data) ==
    IF Len(lines) = 0 THEN data
    ELSE LET j == Head(lines)
         IN IF ~Parses(j) \/ ~Has(j.sessionId)
            THEN ScanLines(Tail(lines), data)
            ELSE LET at == MapIndex(data, Val(j.sessionId))
                     added == IF at = 0 THEN Append(data, NewSummary(j)) ELSE data
                     k == IF at = 0 THEN Len(added) ELSE at
                 IN ScanLines(Tail(lines),
                              [added EXCEPT ![k] = UpdateSummary(added[k], j)])

\* file names in projectsDir (lines 309-310)
JsonlExt == <<".", "j", "s", "o", "n", "l">>
JsonlName(id) == id \o JsonlExt
AgentName(id) ==
    <<"a", "g", "e", "n", "t", "-">>
        \o SubSeq(id, 1, IF Len(id) < 7 THEN Len(id) ELSE 7) \o JsonlExt

\* a transcript file: its number of non-empty lines and its size in bytes
Transcript(msgLines, bytes) == <<[msgLines |-> msgLines, bytes |-> bytes]>>

\* lines 312-319: the file looked up for a session, Absent if neither exists
FilePath(dir, id) ==
    IF Has(dir[JsonlName(id)]) THEN <<JsonlName(id)>>
    ELSE IF Has(dir[AgentName(id)]) THEN <<AgentName(id)>>
    ELSE Absent

\* lines 308-332
Enrich(dir, data) ==
    [i \in 1..Len(data) |->
        LET filePath == FilePath(dir, data[i].id)
        IN IF Has(filePath)
           THEN [data[i] EXCEPT !.messageCount = Val(dir[Val(filePath)]).msgLines,
                                !.fileSize = <<Val(dir[Val(filePath)]).bytes>>]
           ELSE data[i]]

\* lines 335-336 without the sort
SortSummariesScanOrder(data) == data

\* lines 335-336: Array.prototype.sort is stable: lastSeen descending, ties
\* in insertion order
RECURSIVE SortSummaries(_)
SortSummaries(data) ==
    IF Len(data) = 0 THEN <<>>
    ELSE LET best == CHOOSE i \in 1..Len(data) :
                        \A k \in 1..Len(data) :
                            \/ data[i].lastSeen > data[k].lastSeen
                            \/ data[i].lastSeen = data[k].lastSeen /\ i <= k
             rest == SubSeq(data, 1, best - 1) \o SubSeq(data, best + 1, Len(data))
         IN <<data[best]>> \o SortSummaries(rest)

\* line 337
Slice(data) == SubSeq(data, 1, IF Len(data) < ListLimit THEN Len(data) ELSE ListLimit)

\* lines 357-362: sizeStr, the number in tenths of the unit
SizeStr(fileSize) ==
    IF ~Has(fileSize) \/ Val(fileSize) = 0 THEN [tenths |-> 0, unit |-> "B"]
    ELSE IF Val(fileSize) < 1024 THEN [tenths |-> Val(fileSize) * 10, unit |-> "B"]
    ELSE IF Val(fileSize) < 1024 * 1024
         THEN [tenths |-> (Val(fileSize) * 20 + 1024) \div 2048, unit |-> "KB"]
    ELSE [tenths |-> (Val(fileSize) * 20 + 1024 * 1024) \div (2048 * 1024), unit |-> "MB"]

\* lines 364-373: the lines printed for the i-th summary; STARTED and
\* LAST_SEEN as the instants they render, messages Absent for '?'
PrintSummary(s, i) ==
    [rank |-> i, id |-> s.id,
     messages |-> IF s.messageCount = 0 THEN Absent ELSE <<s.messageCount>>,
     size |-> SizeStr(s.fileSize),
     firstSeen |-> s.firstSeen, lastSeen |-> s.lastSeen,
     firstPrompt |-> s.firstPrompt, lastPrompt |-> s.lastPrompt]

\* lines 259-377
get_recent_sessions(log, dir) ==
    LET sorted == Slice(SortSummaries(Enrich(dir, ScanLines(log, <<>>))))
    IN [i \in 1..Len(sorted) |-> PrintSummary(sorted[i], i)]

(***************************************************************************)
(* The inputs of the registry reader.                                      *)
(***************************************************************************)
\* two ids with the same first seven characters
RegIdA == <<"a", "b", "c", "d", "e", "f", "g", "1">>
RegIdB == <<"a", "b", "c", "d", "e", "f", "g", "2">>
RegIds == {RegIdA, RegIdB}
Timestamps == {100, 200, 300}
Displays == {"p", "q", ""}

ScanLineSet ==
    { PromptLine(id, ts, d) : id \in RegIds, ts \in Timestamps, d \in Displays }
        \cup {NoIdLine(200, "p"), TornLine(<<RegIdB>>, 300), TornLine(Absent, 300)}

\* the logs of at most n lines of ScanLineSet
RECURSIVE LogsUpTo(_)
LogsUpTo(n) ==
    IF n = 0 THEN {<<>>}
    ELSE LET shorter == LogsUpTo(n - 1)
         IN shorter \cup { Append(l, x) : l \in shorter, x \in ScanLineSet }

\* logs of many sessions with one line each, their timestamps rising,
\* falling, equal or shuffled
ManyId(i) == <<"s">> \o Decimal(i)
Stamp(pattern, i, n) ==
    CASE pattern = "up" -> 100 * i
      [] pattern = "down" -> 100 * (n - i + 1)
      [] pattern = "flat" -> 100
      [] OTHER -> 100 * (((i * 5) % 13) + 1)
ManyLogs ==
    { [i \in 1..n |-> PromptLine(ManyId(i), Stamp(pattern, i, n), "p")] :
        n \in (MaxSessions - 3)..MaxSessions, pattern \in {"up", "down", "flat", "mix"} }

\* the transcript directory: each file there or not
FileNames ==
    { JsonlName(id) : id \in RegIds \cup { ManyId(i) : i \in 1..MaxSessions } }
        \cup { AgentName(id) : id \in RegIds \cup { ManyId(i) : i \in 1..MaxSessions } }
EmptyDir == [f \in FileNames |-> Absent]
Dirs ==
    { [EmptyDir EXCEPT ![JsonlName(RegIdA)] = a, ![JsonlName(RegIdB)] = b,
                       ![AgentName(RegIdA)] = g] :
        a \in {Absent, Transcript(3, 300), Transcript(0, 0)},
        b \in {Absent, Transcript(5, 2048)},
        g \in {Absent, Transcript(7, 700)} }
DirLogs ==
    { <<PromptLine(RegIdA, 100, "p")>>,
      <<PromptLine(RegIdA, 100, "p"), PromptLine(RegIdB, 200, "q")>> }

NotListed == [ran |-> FALSE, out |-> <<>>]
RegInputs ==
    { <<l, EmptyDir>> : l \in LogsUpTo(MaxScan) \cup ManyLogs }
        \cup { <<l, d>> : l \in DirLogs, d \in Dirs }

\* the registry reader not in use
RegStart ==
    /\ projectsDir = EmptyDir
    /\ listing = NotListed

\* get_recent_sessions is run (it is exported, line 562)
ListSessions ==
    /\ ~listing.ran
    /\ listing' = [ran |-> TRUE, out |-> get_recent_sessions(historyLog, projectsDir)]
    /\ UNCHANGED <<projectsDir, authVars, termVars, setupVars, raceVars, fsVars>>

NextReg == ListSessions

(***************************************************************************)
(* refresh_token (lines 89-159) run by two terminals at once, one step     *)
(* per command that reads or writes the credentials file, its backup or    *)
(* the network.  There is no lock and one backup path.                     *)
(***************************************************************************)
\* refreshers[s].pc: "idle", "request" (line 101), "backup" (line 138),
\* "write" (line 141), "restore" (line 155), "done"
RefresherIdle ==
    [pc |-> "idle", refresh_token |-> "", new_access_token |-> "",
     new_refresh_token |-> "", new_expires_at |-> 0, rc |-> 0]

\* lines 90-96: the file is read and the refresh token taken from it
ReadCreds(s) ==
    /\ refreshers[s].pc = "idle"
    /\ LET refresh_tok == CredField(hasJq, credFile, "refreshToken", FALSE)
       IN refreshers' = [refreshers EXCEPT ![s] =
            IF IsEmptyOrNull(refresh_tok)
            THEN [@ EXCEPT !.pc = "done", !.rc = 1]
            ELSE [@ EXCEPT !.pc = "request", !.refresh_token = refresh_tok.txt]]
    /\ UNCHANGED <<authVars, termVars, regVars, setupVars, fsVars>>

\* lines 101-135: the request, the checks of the response, the new expiry
SendRequest(s) ==
    /\ refreshers[s].pc = "request"
    /\ \E resp \in Responses :
         LET new_access_token == RespField(hasJq, resp, "access_token", FALSE)
             resp_refresh_token == RespField(hasJq, resp, "refresh_token", FALSE)
             expires_in == RespField(hasJq, resp, "expires_in", TRUE)
         IN refreshers' = [refreshers EXCEPT ![s] =
              IF ResponseVerdict(hasJq, resp) # "ok"
              THEN [@ EXCEPT !.pc = "done", !.rc = 1]
              ELSE [@ EXCEPT !.pc = "backup",
                             !.new_access_token = new_access_token.txt,
                             !.new_refresh_token =
                                 IF IsEmptyOrNull(resp_refresh_token)
                                 THEN refreshers[s].refresh_token ELSE resp_refresh_token.txt,
                             !.new_expires_at =
                                 get_current_time_ms(now_ms) + Arith(expires_in) * 1000]]
    /\ UNCHANGED <<authVars, termVars, regVars, setupVars, fsVars>>

\* line 138
CopyBackup(s) ==
    /\ refreshers[s].pc = "backup"
    /\ \E cp \in CpOutcomes : backupFile' = BackupStep(credFile, backupFile, cp)
    /\ refreshers' = [refreshers EXCEPT ![s].pc = "write"]
    /\ UNCHANGED <<credFile, now_ms, hasJq, ncmds, last>>
    /\ UNCHANGED <<termVars, regVars, setupVars, fsVars>>

\* lines 141-153: node reads the file as it is now and writes it back
WriteCreds(s) ==
    /\ refreshers[s].pc = "write"
    /\ \E wr \in WrOutcomes :
         /\ credFile' = WriteStep(credFile, refreshers[s].new_access_token,
                                  refreshers[s].new_refresh_token,
                                  refreshers[s].new_expires_at, wr)
         /\ refreshers' = [refreshers EXCEPT ![s] =
              IF WriteOutcome(credFile, wr) = "ok"
              THEN [@ EXCEPT !.pc = "done", !.rc = 0]
              ELSE [@ EXCEPT !.pc = "restore"]]
    /\ UNCHANGED <<backupFile, now_ms, hasJq, ncmds, last>>
    /\ UNCHANGED <<termVars, regVars, setupVars, fsVars>>

\* lines 154-157
RestoreBackup(s) ==
    /\ refreshers[s].pc = "restore"
    /\ credFile' = RestoreStep(credFile, backupFile).cred
    /\ backupFile' = RestoreStep(credFile, backupFile).backup
    /\ refreshers' = [refreshers EXCEPT ![s] = [@ EXCEPT !.pc = "done", !.rc = 1]]
    /\ UNCHANGED <<now_ms, hasJq, ncmds, last>>
    /\ UNCHANGED <<termVars, regVars, setupVars, fsVars>>

RefreshersIdle == refreshers = [s \in Shells |-> RefresherIdle]

\* credentials files with OAuth tokens "at0"
OAuthCredFiles == { JsonFile(<<"sk-ant-key">>, <<o>>) : o \in OAuthRecords }

NextRace ==
    \E s \in Shells :
        ReadCreds(s) \/ SendRequest(s) \/ CopyBackup(s) \/ WriteCreds(s) \/ RestoreBackup(s)

(***************************************************************************)
(* The installer (bin/install.js, the .replit-tools layout) and the files  *)
(* it and the setup script act on: directories of the workspace, ~/.claude *)
(* and ~/.codex, the installed versions and the binary link, .replit,      *)
(* .gitignore and .config/bashrc.                                          *)
(***************************************************************************)
\* A path is the tree it lies in and the path below that tree's root.  The
\* roots: "workspace" is /home/runner/workspace, "workspace2" is
\* /home/runner/workspace2, whose characters begin with those of WORKSPACE,
\* "tmp" is /tmp, "home" is $HOME.
InTree(root, rel) == [root |-> root, rel |-> rel]
InWorkspace(rel) == InTree("workspace", rel)

\* String.prototype.startsWith(WORKSPACE) compares characters, not components
StartsWithWorkspace(p) == p.root \in {"workspace", "workspace2"}
\* the directory lies below the workspace root, the tree that .gitignore covers
InsideWorkspace(p) == p.root = "workspace"

REPLIT_TOOLS == InWorkspace(".replit-tools")
defaultClaudeDir == InWorkspace(".replit-tools/.claude-persistent")
defaultCodexDir == InWorkspace(".replit-tools/.codex-persistent")
sessionsDir == InWorkspace(".replit-tools/.claude-sessions")
persistentHomeDir == InWorkspace(".replit-tools/.persistent-home")
claudeVersionsDir == InWorkspace(".replit-tools/.claude-versions")
logsDir == InWorkspace(".replit-tools/.logs")
scriptsDir == InWorkspace(".replit-tools/scripts")
configDir == InWorkspace(".config")

oldLocations ==
    [claude |-> InWorkspace(".claude-persistent"),
     codex |-> InWorkspace(".codex-persistent"),
     sessions |-> InWorkspace(".claude-sessions"),
     home |-> InWorkspace(".persistent-home"),
     versions |-> InWorkspace(".local/share/claude/versions"),
     logs |-> InWorkspace("logs"),
     scripts |-> InWorkspace("scripts")]

\* directories a user may name in an environment variable
CustomDirs ==
    {InWorkspace("my-claude"), InWorkspace("my-codex"),
     InTree("workspace2", "claude"), InTree("tmp", "claude")}

ToolsDirs ==
    {defaultClaudeDir, defaultCodexDir, sessionsDir, persistentHomeDir,
     claudeVersionsDir, logsDir, scriptsDir}
OldDirs == { oldLocations[k] : k \in DOMAIN oldLocations }
InstallDirs == {REPLIT_TOOLS, configDir} \cup ToolsDirs \cup OldDirs \cup CustomDirs

\* A file of a directory: its name, split at the leading dot that hides it
\* from the shell's *, and what it holds.
ConfigFile(dot, rest, data) == [dot |-> dot, rest |-> rest, data |-> data]
NamesOf(files) == { [dot |-> f.dot, rest |-> f.rest] : f \in files }
NameOf(f) == [dot |-> f.dot, rest |-> f.rest]

\* a version of the CLI, a file of the versions directory named by its
\* numbers joined with dots
Versions == {<<2, 0, 9>>, <<2, 0, 71>>, <<2, 1, 0>>, <<10, 0, 0>>}

RECURSIVE VersionName(_)
VersionName(v) ==
    IF Len(v) = 1 THEN Decimal(v[1])
    ELSE Decimal(v[1]) \o <<".">> \o VersionName(Tail(v))

\* the UTF-16 code unit of a character of a version name
CodeUnit(c) ==
    IF c = "." THEN 46
    ELSE 48 + (CHOOSE d \in 0..9 : DigitChar(d) = c)

\* Array.prototype.sort() without a comparator: the order of the names as
\* strings, by code unit, a proper prefix first
RECURSIVE StringBefore(_, _)
StringBefore(a, b) ==
    IF Len(a) = 0 THEN Len(b) > 0
    ELSE IF Len(b) = 0 THEN FALSE
    ELSE IF CodeUnit(a[1]) # CodeUnit(b[1]) THEN CodeUnit(a[1]) < CodeUnit(b[1])
    ELSE StringBefore(Tail(a), Tail(b))

\* sort -V: the numbers of the names compared one after the other
RECURSIVE VersionBefore(_, _)
VersionBefore(a, b) ==
    IF Len(a) = 0 THEN Len(b) > 0
    ELSE IF Len(b) = 0 THEN FALSE
    ELSE IF a[1] # b[1] THEN a[1] < b[1]
    ELSE VersionBefore(Tail(a), Tail(b))

\* versions.sort() and versions[versions.length - 1] (lines 488-493)
LastOfSort(versions) ==
    CHOOSE v \in versions :
        \A w \in versions \ {v} : StringBefore(VersionName(w), VersionName(v))

\* ls -1 | grep -v '^\.' | sort -V | tail -n1 (setup-claude-code.sh line 91)
LastOfSortV(versions) ==
    CHOOSE v \in versions : \A w \in versions \ {v} : VersionBefore(w, v)

\* ~/.claude and ~/.codex: nothing, a symbolic link, or a directory of files
NoLink == [kind |-> "none", target |-> Absent, files |-> {}]
LinkTo(p) == [kind |-> "link", target |-> <<p>>, files |-> {}]
RealDir(files) == [kind |-> "dir", target |-> Absent, files |-> files]

\* the lines of .replit the installer tells apart
OnBootLine(dir) == [kind |-> "onBoot", dir |-> <<dir>>]
AddedComment == [kind |-> "# Claude persistence (added by DATA Tools)", dir |-> Absent]
CreatedComment == [kind |-> "# Claude persistence (DATA Tools)", dir |-> Absent]
BlankLine == [kind |-> "", dir |-> Absent]
OtherLine == [kind |-> "run = \"npm start\"", dir |-> Absent]
\* a line that names the setup script without being an onBoot line
RunsSetupLine == [kind |-> "run = \"bash scripts/setup-claude-code.sh\"", dir |-> Absent]

\* /onBoot\s*=\s*"[^"]*setup-claude-code\.sh[^"]*"\n?/ matches the line
MatchesOnBoot(l) == l.kind = "onBoot"
\* the line contains 'setup-claude-code.sh'
NamesSetupScript(l) == l.kind = "onBoot" \/ l = RunsSetupLine

\* the lines of .gitignore the installer tells apart
ToolsEntry == ".replit-tools/"
ToolsComment == "# DATA Tools - All sensitive data in one place (added by DATA Tools)"
NodeModulesEntry == "node_modules/"
\* a comment that mentions the directory without ignoring it
ToolsMention == "# keep .replit-tools/ out of backups"
\* the line contains '.replit-tools/'
NamesToolsDir(l) == l \in {ToolsEntry, ToolsMention}
\* git ignores what lies below a directory named by an entry
IgnoredBy(lines, p) ==
    /\ InsideWorkspace(p)
    /\ \E i \in 1..Len(lines) :
         lines[i] = ToolsEntry /\ (p = REPLIT_TOOLS \/ p \in ToolsDirs)

\* UPDATE .replit (lines 588-606)
UpdateReplit(replit, dir) ==
    IF replit # Absent
    THEN LET content == SelectSeq(replit[1], LAMBDA l : ~MatchesOnBoot(l))
         IN IF \A i \in 1..Len(content) : ~NamesSetupScript(content[i])
            THEN <<content \o <<BlankLine, BlankLine, AddedComment, OnBootLine(dir)>>>>
            ELSE <<content>>
    ELSE <<<<CreatedComment, OnBootLine(dir)>>>>

\* UPDATE .gitignore (lines 612-630)
UpdateGitignore(gitignore) ==
    IF gitignore # Absent
    THEN IF \A i \in 1..Len(gitignore[1]) : ~NamesToolsDir(gitignore[1][i])
         THEN <<gitignore[1] \o <<"", ToolsComment, ToolsEntry>>>>
         ELSE gitignore
    ELSE <<<<ToolsComment, ToolsEntry>>>>

\* the variables the installer reads, in the order it reads them (lines
\* 135-140 and 172-176); process.env[name] || null: an empty value is unset
claudeConfigEnvVars ==
    <<"CLAUDE_CONFIG_DIR", "CLAUDE_WORKSPACE_DIR", "CLAUDE_DATA_DIR", "CLAUDE_HOME">>
codexConfigEnvVars == <<"CODEX_HOME", "CODEX_CONFIG_DIR", "CODEX_DATA_DIR">>
EnvNames ==
    { claudeConfigEnvVars[i] : i \in 1..4 } \cup { codexConfigEnvVars[i] : i \in 1..3 }
NoEnv == [n \in EnvNames |-> Absent]
getEnvVar(env, name) == env[name]

\* for (const envVar of ...) { if (value) { custom = value; break } }
FirstSetVar(env, names) ==
    IF \E i \in 1..Len(names) : getEnvVar(env, names[i]) # Absent
    THEN getEnvVar(env, names[CHOOSE i \in 1..Len(names) :
                                /\ getEnvVar(env, names[i]) # Absent
                                /\ \A j \in 1..(i - 1) : getEnvVar(env, names[j]) = Absent])
    ELSE Absent

\* DetectDir without the test of lines 160 and 197
DetectDirAnyPath(env, names, defaultDir) ==
    LET custom == FirstSetVar(env, names)
    IN IF custom # Absent
       THEN [dir |-> custom[1], usingCustom |-> TRUE]
       ELSE [dir |-> defaultDir, usingCustom |-> FALSE]

\* lines 155-168 and 192-204: a custom directory is used when its path
\* starts with WORKSPACE, the default otherwise
DetectDir(env, names, defaultDir) ==
    LET custom == FirstSetVar(env, names)
    IN IF custom # Absent /\ StartsWithWorkspace(custom[1])
       THEN [dir |-> custom[1], usingCustom |-> TRUE]
       ELSE [dir |-> defaultDir, usingCustom |-> FALSE]

\* fs.mkdirSync(dir, {recursive: true}) where dir does not exist; the
\* directories below .replit-tools bring .replit-tools with them
Mkdir(dirs, p) ==
    [d \in InstallDirs |->
        IF dirs[d] = Absent /\ (d = p \/ (d = REPLIT_TOOLS /\ p \in ToolsDirs))
        THEN <<{}>> ELSE dirs[d]]

RECURSIVE MkdirAll(_, _)
MkdirAll(dirs, ps) ==
    IF Len(ps) = 0 THEN dirs ELSE MkdirAll(Mkdir(dirs, ps[1]), Tail(ps))

\* CREATE DIRECTORIES (lines 225-249)
dirsToCreate(claudePersistentDir, codexPersistentDir) ==
    <<claudePersistentDir, codexPersistentDir, sessionsDir, persistentHomeDir,
      claudeVersionsDir, logsDir, scriptsDir, configDir>>

\* migrateDirectory (lines 51-63): cp -rp old new, when old exists and new
\* does not
migrateDirectory(dirs, oldPath, newPath) ==
    IF dirs[oldPath] # Absent /\ dirs[newPath] = Absent
    THEN [dirs EXCEPT ![newPath] = dirs[oldPath]]
    ELSE dirs

\* the new location of each old one that migrateDirectory is called on
\* (lines 260-280)
newLocations ==
    [claude |-> defaultClaudeDir, codex |-> defaultCodexDir, sessions |-> sessionsDir,
     home |-> persistentHomeDir, versions |-> claudeVersionsDir]

\* lines 280-286: auth-refresh.log alone is copied out of the old logs
AuthRefreshLog == [dot |-> FALSE, rest |-> "auth-refresh.log"]
MigrateLogs(dirs) ==
    IF /\ dirs[oldLocations.logs] # Absent
       /\ AuthRefreshLog \in NamesOf(dirs[oldLocations.logs][1])
       /\ dirs[logsDir] # Absent
       /\ AuthRefreshLog \notin NamesOf(dirs[logsDir][1])
    THEN [dirs EXCEPT ![logsDir] =
            <<@[1] \cup { f \in dirs[oldLocations.logs][1] : NameOf(f) = AuthRefreshLog }>>]
    ELSE dirs

\* MIGRATE FROM OLD LOCATIONS (lines 258-286)
Migrate(dirs, claudeDir, usingCustomClaudeDir, codexDir, usingCustomCodexDir) ==
    LET d1 == IF usingCustomClaudeDir THEN dirs
              ELSE migrateDirectory(dirs, oldLocations.claude, claudeDir)
        d2 == IF usingCustomCodexDir THEN d1
              ELSE migrateDirectory(d1, oldLocations.codex, codexDir)
        d3 == migrateDirectory(d2, oldLocations.sessions, sessionsDir)
        d4 == migrateDirectory(d3, oldLocations.home, persistentHomeDir)
        d5 == migrateDirectory(d4, oldLocations.versions, claudeVersionsDir)
    IN MigrateLogs(d5)

\* readdirSync(dir).filter(f => !f.startsWith('.')): the versions of a
\* directory, none when it does not exist
VersionsIn(dirs, p) ==
    IF dirs[p] = Absent THEN {} ELSE { f.rest : f \in { g \in dirs[p][1] : ~g.dot } }
VersionFile(v) == ConfigFile(FALSE, v, "binary")
\* the version that install.sh downloads
Released == <<2, 1, 0>>

\* cp -rn "${link}"/* "${dir}/" 2>/dev/null || true: the shell's * leaves out
\* the names that begin with a dot, -n leaves the files of dir as they are
CopyNoClobber(files, into) ==
    into \cup { f \in files : ~f.dot /\ NameOf(f) \notin NamesOf(into) }

\* lines 392-421 and 424-452: ~/.claude and ~/.codex.  A link elsewhere is
\* replaced, a directory is copied with cp -rn and removed with rm -rf.
LinkConfigDir(link, dirs, persistentDir) ==
    IF link.kind = "link"
    THEN [link |-> LinkTo(persistentDir), dirs |-> dirs]
    ELSE IF link.kind = "dir"
    THEN [link |-> LinkTo(persistentDir),
          dirs |-> IF dirs[persistentDir] = Absent THEN dirs
                   ELSE [dirs EXCEPT ![persistentDir] =
                           <<CopyNoClobber(link.files, @[1])>>]]
    ELSE [link |-> LinkTo(persistentDir), dirs |-> dirs]

\* lines 488-503: the binary link goes to the last of versions.sort()
LinkBinary(binLink, dirs) ==
    LET versions == VersionsIn(dirs, claudeVersionsDir)
    IN IF versions # {} THEN <<LastOfSort(versions)>> ELSE binLink

\* CREATE BASHRC (lines 537-582): the directories it exports
BashrcContent(claudeDir, codexDir) ==
    <<[CLAUDE_CONFIG_DIR |-> claudeDir, CLAUDE_WORKSPACE_DIR |-> claudeDir,
       CODEX_HOME |-> codexDir]>>

\* fs: the files.  inst: the installer, its position, its local variables,
\* the files as they were when it first started and as its first run left them.
InstallerIdle(start) ==
    [pc |-> "idle", runs |-> 0,
     claudePersistentDir |-> defaultClaudeDir, usingCustomClaudeDir |-> FALSE,
     codexPersistentDir |-> defaultCodexDir, usingCustomCodexDir |-> FALSE,
     start |-> start, first |-> Absent]

MaxInstalls == 2

\* main() up to the migration (lines 78-290)
InstallerMain ==
    /\ inst.pc \in {"idle", "done"}
    /\ inst.runs < MaxInstalls
    /\ LET c == DetectDir(fs.env, claudeConfigEnvVars, defaultClaudeDir)
           x == DetectDir(fs.env, codexConfigEnvVars, defaultCodexDir)
           made == MkdirAll(Mkdir(fs.dirs, REPLIT_TOOLS), dirsToCreate(c.dir, x.dir))
       IN /\ inst' = [inst EXCEPT !.pc = "install",
                                  !.claudePersistentDir = c.dir,
                                  !.usingCustomClaudeDir = c.usingCustom,
                                  !.codexPersistentDir = x.dir,
                                  !.usingCustomCodexDir = x.usingCustom]
          /\ fs' = [fs EXCEPT !.dirs = Migrate(made, c.dir, c.usingCustom,
                                               x.dir, x.usingCustom)]
    /\ UNCHANGED <<authVars, termVars, regVars, setupVars, raceVars>>

\* INSTALL CLAUDE CODE and INSTALL CODEX CLI (lines 293-383): curl | bash runs
\* when no claude is on the PATH and no version is found; what it installed
\* is copied into the versions directory.  npm i -g @openai/codex touches
\* none of the files here.
InstallCli ==
    /\ inst.pc = "install"
    /\ LET claudeVersions ==
               IF VersionsIn(fs.dirs, claudeVersionsDir) # {}
               THEN VersionsIn(fs.dirs, claudeVersionsDir)
               ELSE VersionsIn(fs.dirs, oldLocations.versions)
           claudeInstalled == fs.binLink # Absent \/ claudeVersions # {}
       IN \E success \in BOOLEAN :
            fs' = IF ~claudeInstalled /\ success /\ fs.dirs[claudeVersionsDir] # Absent
                  THEN [fs EXCEPT !.dirs[claudeVersionsDir] =
                                     <<@[1] \cup {VersionFile(Released)}>>]
                  ELSE fs
    /\ inst' = [inst EXCEPT !.pc = "links"]
    /\ UNCHANGED <<authVars, termVars, regVars, setupVars, raceVars>>

\* SET UP SYMLINKS (lines 385-503)
SetUpSymlinks ==
    /\ inst.pc = "links"
    /\ LET c == LinkConfigDir(fs.claudeLink, fs.dirs, inst.claudePersistentDir)
           x == LinkConfigDir(fs.codexLink, c.dirs, inst.codexPersistentDir)
       IN fs' = [fs EXCEPT !.claudeLink = c.link, !.codexLink = x.link,
                           !.dirs = x.dirs,
                           !.binLink = LinkBinary(fs.binLink, x.dirs)]
    /\ inst' = [inst EXCEPT !.pc = "config"]
    /\ UNCHANGED <<authVars, termVars, regVars, setupVars, raceVars>>

\* COPY SCRIPTS, CREATE BASHRC, UPDATE .replit, UPDATE .gitignore (lines
\* 505-630); the run is over
WriteConfig ==
    /\ inst.pc = "config"
    /\ LET after == [fs EXCEPT
                       !.bashrc = BashrcContent(inst.claudePersistentDir,
                                                inst.codexPersistentDir),
                       !.replit = UpdateReplit(fs.replit, scriptsDir),
                       !.gitignore = UpdateGitignore(fs.gitignore)]
       IN /\ fs' = after
          /\ inst' = [inst EXCEPT !.pc = "done", !.runs = @ + 1,
                                  !.first = IF inst.runs = 0 THEN <<after>> ELSE @]
    /\ UNCHANGED <<authVars, termVars, regVars, setupVars, raceVars>>

\* The setup script of the .replit-tools layout on the same files.
\* CLAUDE_PERSISTENT is
\* ${CLAUDE_CONFIG_DIR:-${REPLIT_TOOLS}/.claude-persistent}; the bashrc exports
\* CLAUDE_CONFIG_DIR before it sources the script.
CLAUDE_PERSISTENT(f) ==
    IF f.bashrc # Absent THEN f.bashrc[1].CLAUDE_CONFIG_DIR
    ELSE IF getEnvVar(f.env, "CLAUDE_CONFIG_DIR") # Absent
         THEN getEnvVar(f.env, "CLAUDE_CONFIG_DIR")[1]
         ELSE defaultClaudeDir

\* Step 1 (lines 44-48): mkdir -p of the persistent directories
SetupStep1(f) ==
    [f EXCEPT !.dirs = MkdirAll(f.dirs, <<CLAUDE_PERSISTENT(f), claudeVersionsDir, logsDir>>)]

\* the test of Step 2 (line 53): ~/.claude is not a link to CLAUDE_PERSISTENT
NeedsClaudeLink(f) ==
    f.claudeLink.kind # "link" \/ f.claudeLink.target # <<CLAUDE_PERSISTENT(f)>>

\* Step 2 (lines 53-57): rm -rf "${CLAUDE_SYMLINK}" || true, then ln -sf
SetupStep2(f, ln) ==
    IF NeedsClaudeLink(f)
    THEN [f EXCEPT !.claudeLink = IF ln = 0 THEN LinkTo(CLAUDE_PERSISTENT(f)) ELSE NoLink]
    ELSE f

\* Step 4 (lines 89-102): the binary link goes to the last of sort -V
SetupStep4(f, ln) ==
    LET versions == VersionsIn(f.dirs, claudeVersionsDir)
    IN IF versions # {} /\ f.binLink # <<LastOfSortV(versions)>>
       THEN [f EXCEPT !.binLink = IF ln = 0 THEN <<LastOfSortV(versions)>> ELSE Absent]
       ELSE f

\* Step 4 (lines 103-123): install.sh has run and its version is in the
\* versions directory
SetupInstall(f) ==
    IF f.dirs[claudeVersionsDir] # Absent
    THEN [f EXCEPT !.dirs[claudeVersionsDir] = <<@[1] \cup {VersionFile(Released)}>>]
    ELSE f

\* nothing installed, nothing set
CleanFs ==
    [env |-> NoEnv, dirs |-> [d \in InstallDirs |-> Absent],
     claudeLink |-> NoLink, codexLink |-> NoLink, binLink |-> Absent,
     replit |-> Absent, gitignore |-> Absent, bashrc |-> Absent]

HistoryFile(data) == ConfigFile(FALSE, "history.jsonl", data)
SettingsFile(data) == ConfigFile(FALSE, "settings.json", data)
CredentialsFile(data) == ConfigFile(TRUE, "credentials.json", data)
AuthLogFile(data) == ConfigFile(FALSE, "auth-refresh.log", data)

\* the environment of the installer: override variables set or not, to
\* directories inside and outside the workspace, beside an old directory
EnvInputs ==
    { [CleanFs EXCEPT !.env["CLAUDE_CONFIG_DIR"] = a,
                      !.env["CLAUDE_WORKSPACE_DIR"] = b,
                      !.env["CODEX_HOME"] = c,
                      !.dirs[oldLocations.claude] = o] :
        a \in {Absent, <<InWorkspace("my-claude")>>, <<InTree("workspace2", "claude")>>,
               <<InTree("tmp", "claude")>>},
        b \in {Absent, <<InWorkspace("my-claude")>>},
        c \in {Absent, <<InWorkspace("my-codex")>>, <<InTree("tmp", "claude")>>},
        o \in {Absent, <<{CredentialsFile("v1"), HistoryFile("v1")}>>} }

\* a workspace of version 1: some of the old locations hold data
UpgradeInputs ==
    { [CleanFs EXCEPT !.dirs[oldLocations.claude] = a,
                      !.dirs[oldLocations.codex] = b,
                      !.dirs[oldLocations.sessions] = c,
                      !.dirs[oldLocations.home] = c,
                      !.dirs[oldLocations.versions] = v,
                      !.dirs[oldLocations.logs] = l] :
        a \in {Absent, <<{CredentialsFile("v1"), HistoryFile("v1")}>>},
        b \in {Absent, <<{SettingsFile("v1")}>>},
        c \in {Absent, <<{SettingsFile("v1")}>>},
        v \in {Absent, <<{VersionFile(<<2, 0, 9>>)}>>},
        l \in {Absent, <<{AuthLogFile("v1")}>>} }

\* what the CLIs left in $HOME, beside a persistent directory or none
HomeInputs ==
    { [CleanFs EXCEPT !.claudeLink = a, !.codexLink = b,
                      !.dirs[REPLIT_TOOLS] = IF p = Absent THEN Absent ELSE <<{}>>,
                      !.dirs[defaultClaudeDir] = p] :
        a \in {NoLink, LinkTo(defaultClaudeDir), LinkTo(oldLocations.claude),
               RealDir({}), RealDir({HistoryFile("home")}),
               RealDir({CredentialsFile("home")}),
               RealDir({CredentialsFile("home"), HistoryFile("home"),
                        SettingsFile("home")})},
        b \in {NoLink, RealDir({SettingsFile("home")})},
        p \in {Absent, <<{SettingsFile("kept")}>>} }

\* versions installed before
VersionInputs ==
    { [CleanFs EXCEPT !.dirs[REPLIT_TOOLS] = <<{}>>,
                      !.dirs[claudeVersionsDir] = <<{ VersionFile(v) : v \in vs }>>,
                      !.binLink = b] :
        vs \in SUBSET Versions, b \in {Absent, <<<<2, 0, 9>>>>} }

\* .replit and .gitignore as the user or an earlier installer left them
ConfigInputs ==
    { [CleanFs EXCEPT !.replit = r, !.gitignore = g] :
        r \in {Absent, <<<<OtherLine>>>>,
               <<<<OtherLine, OnBootLine(oldLocations.scripts)>>>>,
               <<<<RunsSetupLine>>>>},
        g \in {Absent, <<<<NodeModulesEntry>>>>, <<<<ToolsMention>>>>,
               <<<<NodeModulesEntry, ToolsEntry>>>>} }

InstallInputs ==
    EnvInputs \cup UpgradeInputs \cup HomeInputs \cup VersionInputs \cup ConfigInputs

\* the files a shell finds when it reads the bashrc
SetupFiles ==
    {CleanFs,
     [CleanFs EXCEPT !.dirs[REPLIT_TOOLS] = <<{}>>,
                     !.dirs[claudeVersionsDir] =
                         <<{VersionFile(<<2, 0, 9>>), VersionFile(<<2, 0, 71>>)}>>,
                     !.claudeLink = RealDir({CredentialsFile("home")})]}

FsStart(inputs) == fs \in inputs /\ inst = InstallerIdle(fs)
FilesIdle == FsStart({CleanFs})

(***************************************************************************)
(* setup-claude-code.sh, sourced by the generated .config/bashrc           *)
(* (index.js lines 413-414) in the interactive shell that bash --rcfile    *)
(* starts.  The bashrc exports CLAUDE_CONFIG_DIR, so the setup script and  *)
(* the refresher it sources name the same credentials file.                *)
(***************************************************************************)
\* setup.pc: "bashrc" before the source line; "dirs", "install", "auth",
\* "check", "summary" inside the script; "returned" when the bashrc goes on
\* after the source line; "exited" when the shell has terminated.
\* setup.errexit: set -e is in force in the shell.  setup.logTo: where the
\* function named log writes.  setup.out: what the script has printed.
\* setup.nreq: requests sent to the token endpoint since the shell started.
BashrcStart ==
    [pc |-> "bashrc", errexit |-> FALSE, logTo |-> "none", latest |-> FALSE,
     fsFailed |-> FALSE, autoRc |-> Absent, nreq |-> 0, out |-> <<>>]

\* set -e: a command that is not the test of an if, and not before the last
\* && or || of a list, ends the shell when its status is not 0
Errexit(errexit, status) == errexit /\ status # 0

\* log of the setup script (lines 31-35) prints in an interactive shell; log
\* of the refresher (lines 21-24 of claude-auth-refresh.sh), which replaces
\* it once the refresher is sourced, appends to the log file
Logged(s, msg) == Append(s.out, [to |-> s.logTo, msg |-> msg])

\* [ -f "${SETUP_SCRIPT}" ] && source "${SETUP_SCRIPT}"; line 16: set -e
SourceSetup ==
    /\ setup.pc = "bashrc"
    /\ \E present \in BOOLEAN :
         setup' = IF present
                  THEN [setup EXCEPT !.pc = "dirs", !.errexit = TRUE, !.logTo = "terminal"]
                  ELSE [setup EXCEPT !.pc = "returned"]
    /\ UNCHANGED <<authVars, termVars, regVars, raceVars, fsVars>>

\* Steps 1 to 3 (lines 40-62): mkdir -p and ln -sf are plain commands, the
\* rm commands end in || true
Step1to3 ==
    /\ setup.pc = "dirs"
    /\ \E mkdir \in {0, 1}, ln \in {0, 1} :
         /\ setup' = IF Errexit(setup.errexit, mkdir) \/ Errexit(setup.errexit, ln)
                     THEN [setup EXCEPT !.pc = "exited", !.fsFailed = TRUE]
                     ELSE [setup EXCEPT !.pc = "install",
                                        !.out = Logged(setup, "history symlink")]
         /\ fs' = IF mkdir # 0 THEN fs ELSE SetupStep2(SetupStep1(fs), ln)
    /\ UNCHANGED inst
    /\ UNCHANGED <<authVars, termVars, regVars, raceVars>>

\* Steps 4 and 5 (lines 67-106): the binary is linked, or installed by
\* curl | bash, which is the test of an if
Step4 ==
    /\ setup.pc = "install"
    /\ \E install \in {0, 1}, ln \in {0, 1} :
         LET found == VersionsIn(fs.dirs, claudeVersionsDir) # {}
         IN /\ setup' =
                 IF found \/ install = 0
                 THEN IF Errexit(setup.errexit, ln)
                      THEN [setup EXCEPT !.pc = "exited", !.fsFailed = TRUE]
                      ELSE [setup EXCEPT !.pc = "auth", !.latest = TRUE,
                                         !.out = Logged(setup, IF found THEN "binary symlink"
                                                               ELSE "installed")]
                 ELSE [setup EXCEPT !.pc = "auth",
                                    !.out = Logged(setup, "Failed to install Claude Code")]
            /\ fs' = IF found THEN SetupStep4(fs, ln)
                     ELSE IF install = 0 THEN SetupStep4(SetupInstall(fs), ln)
                     ELSE fs
    /\ UNCHANGED inst
    /\ UNCHANGED <<authVars, termVars, regVars, raceVars>>

\* lines 111-114 and 185-188: with a credentials file and the refresher
\* script, the refresher is sourced: its line 18 makes the log directory and
\* its last command (lines 222-228, no argument) is auto_refresh_if_needed,
\* whose return code is the status of a plain command
Step6Source ==
    /\ setup.pc = "auth"
    /\ \E script \in BOOLEAN, mkdir \in {0, 1} :
       \E resp \in ResponsesFor(hasJq, credFile,
                                script /\ mkdir = 0 /\ AutoCalls(hasJq, credFile, now_ms)) :
       \E cp \in CpOutcomesFor(hasJq, resp), wr \in WrOutcomesFor(hasJq, resp) :
         LET a == auto_refresh_if_needed(hasJq, credFile, backupFile, now_ms, resp, cp, wr)
         IN IF credFile.kind # "nofile" /\ script
            THEN IF Errexit(setup.errexit, mkdir)
                 THEN /\ setup' = [setup EXCEPT !.pc = "exited", !.fsFailed = TRUE]
                      /\ UNCHANGED <<credFile, backupFile>>
                 ELSE /\ credFile' = a.r.cred
                      /\ backupFile' = a.r.backup
                      /\ setup' = [setup EXCEPT
                                     !.pc = IF Errexit(setup.errexit, a.rc)
                                            THEN "exited" ELSE "check",
                                     !.logTo = "file",
                                     !.autoRc = <<a.rc>>,
                                     !.nreq = @ + a.r.nreq,
                                     !.out = setup.out \o
                                             [i \in 1..Len(a.out) |->
                                                 [to |-> "terminal", msg |-> a.out[i].msg]]]
            ELSE /\ setup' = [setup EXCEPT
                                !.pc = "summary",
                                !.out = IF credFile.kind = "nofile"
                                        THEN Logged(setup, "No Claude credentials found")
                                        ELSE setup.out]
                 /\ UNCHANGED <<credFile, backupFile>>
    /\ UNCHANGED <<now_ms, hasJq, ncmds, last>>
    /\ UNCHANGED <<termVars, regVars, raceVars, fsVars>>

\* lines 118-134: what node prints of the credentials file, split at ':'
\* (Date.now() is in milliseconds, Math.floor rounds down)
AuthInfo(type, remaining, has_refresh) ==
    [auth_type |-> type, remaining |-> remaining, has_refresh |-> has_refresh]
ReadAuthInfo(cred, now) ==
    IF cred.kind # "json" THEN AuthInfo("error", 0, FALSE)
    ELSE IF Has(cred.primaryApiKey) THEN AuthInfo("apikey", 0, FALSE)
    ELSE IF /\ Has(cred.claudeAiOauth)
            /\ Has(Val(cred.claudeAiOauth).expiresAt)
            /\ Val(Val(cred.claudeAiOauth).expiresAt) # 0
    THEN AuthInfo("oauth",
                  (Val(Val(cred.claudeAiOauth).expiresAt) - now) \div 3600000,
                  Has(Val(cred.claudeAiOauth).refreshToken))
    ELSE AuthInfo("", 0, FALSE)

\* lines 139-177: refresh_token is called, as the test of an if
CheckRefreshes(info) ==
    info.auth_type = "oauth" /\ info.remaining < 2 /\ info.has_refresh

\* lines 117-184
Step6Check ==
    /\ setup.pc = "check"
    /\ \E node \in BOOLEAN :
       LET info == ReadAuthInfo(credFile, now_ms)
       IN \E resp \in ResponsesFor(hasJq, credFile, node /\ CheckRefreshes(info)) :
          \E cp \in CpOutcomesFor(hasJq, resp), wr \in WrOutcomesFor(hasJq, resp) :
            LET r == refresh_token(hasJq, credFile, backupFile, now_ms, resp, cp, wr)
                msg == IF info.auth_type = "apikey" THEN "API key (permanent)"
                       ELSE IF info.auth_type = "error" THEN "Could not read credentials"
                       ELSE IF info.remaining <= 0
                       THEN IF ~info.has_refresh THEN "Token expired (no refresh token)"
                            ELSE IF r.rc = 0 THEN "refreshed"
                            ELSE "Token refresh failed - run: claude login"
                       ELSE IF info.remaining < 2
                       THEN IF ~info.has_refresh THEN "remaining (no refresh token)"
                            ELSE IF r.rc = 0 THEN "refreshed"
                            ELSE "Refresh failed, remaining"
                       ELSE "valid"
            IN IF node /\ CheckRefreshes(info)
               THEN /\ credFile' = r.cred
                    /\ backupFile' = r.backup
                    /\ setup' = [setup EXCEPT !.pc = "summary", !.nreq = @ + r.nreq,
                                                  !.out = Logged(setup, msg)]
               ELSE /\ setup' = [setup EXCEPT
                                   !.pc = "summary",
                                   !.out = IF node /\ info.auth_type # ""
                                           THEN Logged(setup, msg) ELSE setup.out]
                    /\ UNCHANGED <<credFile, backupFile>>
    /\ UNCHANGED <<now_ms, hasJq, ncmds, last>>
    /\ UNCHANGED <<termVars, regVars, raceVars, fsVars>>

\* lines 193-198, and the return to the bashrc, where set -e stays in force
Summary ==
    /\ setup.pc = "summary"
    /\ \E claude \in BOOLEAN :
         setup' = [setup EXCEPT
                     !.pc = "returned",
                     !.out = IF setup.latest /\ claude
                             THEN Logged(setup, "Claude Code ready") ELSE setup.out]
    /\ UNCHANGED <<authVars, termVars, regVars, raceVars, fsVars>>

\* credentials files of a user with an API key, with OAuth tokens, or both
SetupCredFiles ==
    CredFiles \cup {JsonFile(Absent, Absent)}
              \cup { JsonFile(Absent, <<o>>) : o \in OAuthRecords }

SetupStart == setup = BashrcStart

NextSetup == SourceSetup \/ Step1to3 \/ Step4 \/ Step6Source \/ Step6Check \/ Summary \/ Tick

\* the installer runs, twice at most, and shells read the bashrc
NextInstall ==
    \/ InstallerMain \/ InstallCli \/ SetUpSymlinks \/ WriteConfig
    \/ SourceSetup \/ Step1to3 \/ Step4

(***************************************************************************)
(* The specifications: the token refresher alone, the session manager      *)
(* alone.                                                                   *)
(***************************************************************************)
\* the refresher's files and clock before its first run
AuthStart(creds, jqs) ==
    /\ credFile \in creds
    /\ backupFile = NoFile
    /\ now_ms = 0
    /\ hasJq \in jqs
    /\ ncmds = 0
    /\ last = Last("none", AutoResult(NoRefresh(NoFile, NoFile), 0, <<>>, 0, NoStatus),
                   NoFile, NoFile, 0)

\* the shells before the session manager is sourced, each on one of ttys
TermStart(ttys) ==
    /\ ttyOf \in [Shells -> ttys]
    /\ termId = [s \in Shells |-> <<>>]
    /\ pc = [s \in Shells |-> "start"]
    /\ loc = [s \in Shells |-> NoLocals]
    /\ cli = [s \in Shells |-> NoCli]
    /\ stateFiles = [tid \in TermIds |-> NoState]
    /\ historyLog = <<>>
    /\ savedArg = [tid \in TermIds |-> <<>>]
    /\ nruns = 0

\* the refresher on any credentials file, the session manager not in use
InitAuth == AuthStart(CredFiles, BOOLEAN) /\ TermStart({DevPts0}) /\ RegStart /\ SetupStart /\ RefreshersIdle /\ FilesIdle

\* the picker in shells on two pseudo-terminals, the refresher not in use
InitTerm == AuthStart({NoFile}, {TRUE}) /\ TermStart({DevPts0, DevPts1}) /\ RegStart /\ SetupStart /\ RefreshersIdle /\ FilesIdle

\* shells on any terminal or none, the refresher not in use
InitIds == AuthStart({NoFile}, {TRUE}) /\ TermStart(TtyOutputs) /\ RegStart /\ SetupStart /\ RefreshersIdle /\ FilesIdle

\* any log and transcript directory of the inputs, nothing listed yet
InitReg ==
    /\ AuthStart({NoFile}, {TRUE})
    /\ ttyOf = [s \in Shells |-> DevPts0]
    /\ termId = [s \in Shells |-> <<>>]
    /\ pc = [s \in Shells |-> "start"]
    /\ loc = [s \in Shells |-> NoLocals]
    /\ cli = [s \in Shells |-> NoCli]
    /\ stateFiles = [tid \in TermIds |-> NoState]
    /\ savedArg = [tid \in TermIds |-> <<>>]
    /\ nruns = 0
    /\ \E in \in RegInputs : historyLog = in[1] /\ projectsDir = in[2]
    /\ listing = NotListed
    /\ SetupStart /\ RefreshersIdle /\ FilesIdle

\* the picker on a log that is there already: nothing, one session, two
RunLogs ==
    { <<>>, <<LogLine(<<"sA">>, 1, TRUE)>>,
      <<LogLine(<<"sA">>, 1, TRUE), LogLine(<<"sB">>, 2, TRUE)>> }
RunStart(ttys, logs) ==
    /\ AuthStart({NoFile}, {TRUE})
    /\ ttyOf \in ttys
    /\ termId = [s \in Shells |-> <<>>]
    /\ pc = [s \in Shells |-> "start"]
    /\ loc = [s \in Shells |-> NoLocals]
    /\ cli = [s \in Shells |-> NoCli]
    /\ stateFiles = [tid \in TermIds |-> NoState]
    /\ historyLog \in logs
    /\ savedArg = [tid \in TermIds |-> <<>>]
    /\ nruns = 0
    /\ RegStart
    /\ SetupStart /\ RefreshersIdle /\ FilesIdle

InitRun == RunStart([Shells -> {DevPts0, DevPts1}], RunLogs)

\* two shells on two terminals and a log of two sessions
InitRunFair ==
    RunStart({[s \in Shells |-> IF s = 1 THEN DevPts0 ELSE DevPts1]},
             {<<LogLine(<<"sA">>, 1, TRUE), LogLine(<<"sB">>, 2, TRUE)>>})

\* the steps of claude_prompt when the CLIs append nothing
NextRun ==
    \E s \in Shells :
        \/ Source(s) \/ PickerStart(s) \/ PickerChoice(s) \/ CollectIds(s)
        \/ EnterNumber(s) \/ CliExit(s)

NextAuth == Auto \/ Force \/ Status \/ Tick

\* a shell reads the bashrc, on any credentials file
InitSetup ==
    AuthStart(SetupCredFiles, BOOLEAN) /\ TermStart({DevPts0}) /\ RegStart /\ SetupStart
        /\ RefreshersIdle /\ FsStart(SetupFiles)

SpecAuth == InitAuth /\ [][NextAuth]_vars

SpecTerm == InitTerm /\ [][NextTerm]_vars

SpecIds == InitIds /\ [][NextIds]_vars

\* read -t 30 returns, the list prompt is answered and the CLI exits: the
\* step a run of claude_prompt waits for is taken (at most one is enabled)
RunStep(s) == PickerChoice(s) \/ CollectIds(s) \/ EnterNumber(s) \/ CliExit(s)
SpecRun == InitRun /\ [][NextRun]_vars

SpecRunFair == InitRunFair /\ [][NextRun]_vars /\ \A s \in Shells : WF_vars(RunStep(s))

SpecReg == InitReg /\ [][NextReg]_vars

\* the picker on a log that is there already, while the CLIs append to it
SpecTermLog == InitRun /\ [][NextTerm]_vars

SpecSetup == InitSetup /\ [][NextSetup]_vars

\* two terminals refresh the same credentials file, with or without jq
InitRace ==
    AuthStart(OAuthCredFiles, BOOLEAN) /\ TermStart({DevPts0}) /\ RegStart
        /\ SetupStart /\ RefreshersIdle /\ FilesIdle

SpecRace == InitRace /\ [][NextRace]_vars

\* the installer on any of the workspaces, no credentials file
InitInstall ==
    AuthStart({NoFile}, {TRUE}) /\ TermStart({DevPts0}) /\ RegStart /\ SetupStart
        /\ RefreshersIdle /\ FsStart(InstallInputs)

SpecInstall == InitInstall /\ [][NextInstall]_vars

(***************************************************************************)
(* Claims about the token refresher, checked under SpecAuth.               *)
(***************************************************************************)
HourMs == 60 * 60 * 1000
RefreshRan == last.op \in {"force", "auto"} /\ last.ncalls = 1
HasOAuth(cred) == cred.kind = "json" /\ Has(cred.claudeAiOauth)
OAuthOf(cred) == Val(cred.claudeAiOauth)
\* the endpoint outcomes the claims speak of
FailingResponse(resp) ==
    \/ resp.kind \in {"none", "garbage"}
    \/ resp.kind = "json" /\ (Has(resp.error) \/ ~Has(resp.access_token))
SuccessResponse(resp) ==
    resp.kind = "json" /\ ~Has(resp.error) /\ Has(resp.access_token)

\* C1: whenever refresh() ran and the endpoint's outcome was a transport
\* error, an error response or a response without an access token, refresh()
\* returned failure and the credential file is what it was before the call.
C1_FailedRefreshLeavesFile ==
    (RefreshRan /\ FailingResponse(last.resp))
        => (last.rrc = 1 /\ credFile = last.preCred)

\* a request was sent for a record with tokens and answered by an error
\* response that also carries tokens
C1_Witness ==
    /\ RefreshRan /\ last.nreq = 1
    /\ HasOAuth(last.preCred)
    /\ last.resp.kind = "json" /\ Has(last.resp.error) /\ Has(last.resp.access_token)
    /\ last.rrc = 1

\* C2 (as claimed): whenever the endpoint answered with success and the step
\* rewriting the credential file failed, refresh() returned failure and the
\* credential file is what it was immediately before the call, whatever cp
\* did and whatever backup an earlier refresh left.
C2_FailedWriteRestoresFile ==
    (RefreshRan /\ SuccessResponse(last.resp) /\ last.wr \in {"fail", "truncated"})
        => (last.rrc = 1 /\ credFile = last.preCred)

\* C3: auto_refresh_if_needed on an OAuth record whose expiresAt is more than
\* two hours after the current time sends no request, writes neither the
\* credential file nor the backup, prints nothing and returns success.
C3_FarExpiryIsNoOp ==
    (/\ last.op = "auto"
     /\ HasOAuth(last.preCred)
     /\ Has(OAuthOf(last.preCred).expiresAt)
     /\ Val(OAuthOf(last.preCred).expiresAt) > last.now_ms + 2 * HourMs)
        => (/\ last.nreq = 0
            /\ last.ncalls = 0
            /\ credFile = last.preCred
            /\ backupFile = last.preBackup
            /\ last.out = <<>>
            /\ last.rc = 0)

\* the record expires one millisecond more than two hours from now
C3_Witness ==
    /\ last.op = "auto"
    /\ HasOAuth(last.preCred)
    /\ Has(OAuthOf(last.preCred).expiresAt)
    /\ Val(OAuthOf(last.preCred).expiresAt) = last.now_ms + 2 * HourMs + 1
    /\ Has(OAuthOf(last.preCred).refreshToken)
    /\ last.rc = 0

\* C4: auto_refresh_if_needed calls refresh() exactly once if status() is
\* expired or validWithHours(n) with n < 2, and never otherwise.
C4_RefreshIffExpiredOrBelowTwoHours ==
    last.op = "auto" =>
        LET st == check_token_status(hasJq, last.preCred, last.now_ms)
            due == st.tag = "expired" \/ (st.tag = "hours" /\ st.hours < 2)
        IN /\ last.ncalls = (IF due THEN 1 ELSE 0)
           /\ last.nreq <= last.ncalls
           /\ (st.tag \in {"no_file", "empty_file", "no_expiry"} => last.ncalls = 0)
           /\ (st.tag = "hours" /\ st.hours >= 2 => last.ncalls = 0)

\* a record with one hour left (written by an earlier refresh): the status
\* is validWithHours(1) and one request is sent
C4_Witness ==
    /\ last.op = "auto"
    /\ last.status.tag = "hours" /\ last.status.hours = 1
    /\ last.ncalls = 1 /\ last.nreq = 1

\* C5 (as claimed): status() returns one of no-credential-file, empty-file,
\* no-expiry-field, expired, validWithHours(n), and for a record whose
\* expiresAt is at or before the current time it returns expired.
C5_StatusOfExpiredIsExpired ==
    last.op = "status" =>
        /\ last.status.tag \in {"no_file", "empty_file", "no_expiry", "expired", "hours"}
        /\ (last.status.tag = "hours" => last.status.hours >= 0)
        /\ (/\ HasOAuth(last.preCred)
            /\ Has(OAuthOf(last.preCred).expiresAt)
            /\ Val(OAuthOf(last.preCred).expiresAt) <= last.now_ms)
               => last.status.tag = "expired"

\* C6 (as claimed): after a refresh() that returned success the record's accessToken is
\* the response's access_token, its refreshToken the response's refresh_token
\* if it has one and the prior refreshToken otherwise, its expiresAt the
\* current time in milliseconds plus expires_in * 1000, and every other field
\* of the file is as before.
C6_SuccessfulRefreshWritesTokens ==
    (RefreshRan /\ last.rrc = 0) =>
        /\ HasOAuth(last.preCred) /\ HasOAuth(credFile)
        /\ SuccessResponse(last.resp) /\ Has(last.resp.expires_in)
        /\ OAuthOf(credFile).accessToken = last.resp.access_token
        /\ OAuthOf(credFile).refreshToken =
              (IF Has(last.resp.refresh_token) THEN last.resp.refresh_token
               ELSE OAuthOf(last.preCred).refreshToken)
        /\ OAuthOf(credFile).expiresAt =
              << last.now_ms + Val(last.resp.expires_in) * 1000 >>
        /\ OAuthOf(credFile).subscriptionType = OAuthOf(last.preCred).subscriptionType
        /\ credFile.primaryApiKey = last.preCred.primaryApiKey
        /\ credFile.kind = last.preCred.kind

(***************************************************************************)
(* Claims about the session manager.                                       *)
(***************************************************************************)
\* claude_prompt of shell s has run a session by continue or new, the CLI
\* wrote a prompt line of its session and has exited; every line of the
\* prompt log is whole
RanOwnSession(s) ==
    /\ pc[s] = "done"
    /\ loc[s].branch \in {"continue", "new"}
    /\ cli[s].count = 1
    /\ \E i \in 1..Len(historyLog) :
           historyLog[i].ok /\ historyLog[i].sessionId = <<cli[s].session>>
    /\ \A i \in 1..Len(historyLog) : historyLog[i].ok

\* C7 (as claimed, checked under SpecTerm): after the picker of a terminal has
\* started or continued a session and the CLI has exited, the session id
\* saved for that terminal is the id of the session that ran in it, whatever
\* the other terminals did meanwhile.
C7_TerminalKeepsOwnSession ==
    \A s \in Shells :
        (RanOwnSession(s) /\ \A t \in Shells \ {s} : ttyOf[t] # ttyOf[s])
            => get_terminal_last_session(stateFiles, termId[s]) = cli[s].session

\* C8 (as claimed, checked under SpecIds): for every terminal id,
\* lastSession() returns the session id passed to the latest save, and none
\* if there was no save.
C8_LastSessionIsLatestSave ==
    \A tid \in TermIds :
        get_terminal_last_session(stateFiles, tid) =
            (IF Has(savedArg[tid]) THEN Val(savedArg[tid]) ELSE "")

\* C9 (checked under SpecIds): the terminal id is a function of the
\* controlling terminal device: two shells on the same device have the same
\* id (and state file), two shells on different devices different ones.
C9_TerminalIdFollowsDevice ==
    \A s, t \in Shells :
        (/\ pc[s] # "start" /\ pc[t] # "start"
         /\ ttyOf[s] \in Devices /\ ttyOf[t] \in Devices)
            => ((ttyOf[s] = ttyOf[t]) <=> (termId[s] = termId[t]))

\* two sourced shells on one device, and two on different devices
C9_Witness ==
    \E s, t \in Shells :
        /\ pc[s] # "start" /\ pc[t] # "start"
        /\ ttyOf[s] = DevPts1 /\ ttyOf[t] = DevTty1 /\ termId[s] # termId[t]
        /\ stateFiles[termId[s]].exists /\ ~stateFiles[termId[t]].exists

\* C10 (as claimed, checked under SpecIds): a shell without a controlling
\* terminal (tty prints "not a tty") gets the id shell-<pid>.
C10_NoTtyFallsBackToPid ==
    \A s \in Shells :
        (pc[s] # "start" /\ ttyOf[s] = NotATty) => termId[s] = ShellPid(Pid(s))

(***************************************************************************)
(* Claims about the session registry reader, checked under SpecReg.        *)
(***************************************************************************)
\* the entries of a log: its lines that parse and have a sessionId
EntryAt(log, i) == log[i].ok /\ Has(log[i].sessionId)
EntriesOf(log, id) == { i \in 1..Len(log) : EntryAt(log, i) /\ log[i].sessionId = <<id>> }
LogIds(log) == { Val(log[i].sessionId) : i \in { k \in 1..Len(log) : EntryAt(log, k) } }
MaxTs(log, id) ==
    LET e == EntriesOf(log, id)
    IN log[CHOOSE i \in e : \A k \in e : log[i].timestamp >= log[k].timestamp].timestamp
MinTs(log, id) ==
    LET e == EntriesOf(log, id)
    IN log[CHOOSE i \in e : \A k \in e : log[i].timestamp <= log[k].timestamp].timestamp
Listed == { listing.out[i].id : i \in 1..Len(listing.out) }

\* C11: get_recent_sessions prints min(10, number of distinct session ids)
\* summaries with ranks 1..n, one per session, in non-increasing order of
\* last-seen (the greatest timestamp of the session), and no session left
\* out was seen later than a listed one.
C11_TenMostRecentInOrder ==
    listing.ran =>
        LET out == listing.out
            ids == LogIds(historyLog)
        IN /\ Len(out) = (IF Cardinality(ids) < 10 THEN Cardinality(ids) ELSE 10)
           /\ \A i \in 1..Len(out) :
                 /\ out[i].rank = i
                 /\ out[i].id \in ids
                 /\ out[i].lastSeen = MaxTs(historyLog, out[i].id)
           /\ \A i, k \in 1..Len(out) :
                 i < k => (out[i].lastSeen >= out[k].lastSeen /\ out[i].id # out[k].id)
           /\ \A id \in ids \ Listed :
                 \A i \in 1..Len(out) : MaxTs(historyLog, id) <= out[i].lastSeen

\* more than ten sessions, the first scanned not the most recent: ten are
\* listed, the most recent first
C11_Witness ==
    /\ listing.ran
    /\ Cardinality(LogIds(historyLog)) > 10
    /\ Len(listing.out) = 10
    /\ listing.out[1].id # Val(historyLog[1].sessionId)
    /\ listing.out[1].lastSeen > listing.out[10].lastSeen

\* the permutations of a log
Perms(log) ==
    { [i \in 1..Len(log) |-> log[f[i]]] :
        f \in { g \in [1..Len(log) -> 1..Len(log)] :
                  \A a, b \in 1..Len(log) : a # b => g[a] # g[b] } }
SummaryOf(log, id) ==
    LET data == ScanLines(log, <<>>) IN data[MapIndex(data, id)]
\* d has the least and greatest timestamp of the entries of its session and
\* the display text of an entry with the least, and of one with the greatest
MinMaxSummary(log, d) ==
    /\ d.firstSeen = MinTs(log, d.id)
    /\ d.lastSeen = MaxTs(log, d.id)
    /\ \E i \in EntriesOf(log, d.id) :
          log[i].timestamp = d.firstSeen /\ log[i].display = d.firstPrompt
    /\ \E i \in EntriesOf(log, d.id) :
          log[i].timestamp = d.lastSeen /\ log[i].display = d.lastPrompt
NonEmptyDisplays(log, id) == \A i \in EntriesOf(log, id) : log[i].display # ""

WholeLines(log) == SelectSeq(log, LAMBDA j : j.ok)

\* C13: the summaries printed for a log with malformed lines are those
\* printed for the log without them.
C13_MalformedLinesIgnored ==
    listing.ran =>
        listing.out = get_recent_sessions(WholeLines(historyLog), projectsDir)

\* a torn line that still holds a sessionId, between two entries
C13_Witness ==
    /\ listing.ran
    /\ Len(historyLog) = 3
    /\ EntryAt(historyLog, 1) /\ EntryAt(historyLog, 3)
    /\ ~historyLog[2].ok /\ Has(historyLog[2].sessionId)
    /\ Val(historyLog[2].sessionId) \notin Listed
    /\ Len(listing.out) >= 1

\* C14 (as claimed): no two summaries take their message count and size
\* from the same transcript file.
C14_NoSharedTranscript ==
    listing.ran =>
        \A i, k \in 1..Len(listing.out) :
            LET fi == FilePath(projectsDir, listing.out[i].id)
                fk == FilePath(projectsDir, listing.out[k].id)
            IN (i # k /\ Has(fi)) => fi # fk

(***************************************************************************)
(* Claims about the picker.  C15, C16 and C17 are checked under SpecRun,   *)
(* C18 under SpecTerm, C19 under SpecRunFair.                              *)
(***************************************************************************)
Typed(s, keys) == Has(loc[s].choice) /\ Val(loc[s].choice) \in keys

C16_SkipAndUnknownChangeNothing ==
    [][\A s \in Shells :
          (/\ pc[s] = "prompt"
           /\ Has(loc'[s].choice)
           /\ Val(loc'[s].choice) \notin {"c", "C", "", "r", "R", "n", "N"})
              => (/\ pc'[s] = "done"
                  /\ cli' = cli /\ cli[s].count = 0
                  /\ stateFiles' = stateFiles)]_vars

\* an unknown key in a terminal that has a state file
C16_Witness ==
    \E s \in Shells :
        /\ pc[s] = "done" /\ Typed(s, {"x"})
        /\ cli[s].count = 0
        /\ stateFiles[termId[s]].exists

\* the text is a decimal integer k with 1 <= k <= n
ValidIndex(num, n) == num.kind = "num" /\ 1 <= num.n /\ num.n <= n

\* C17 (as claimed): the step that reads, at the list of N sessions, a text
\* that is not a number from 1 to N returns from the picker, starts no CLI
\* and changes no state file.
C17_InvalidNumberStartsNothing ==
    [][\A s \in Shells :
          (/\ pc[s] = "asknum"
           /\ loc[s].shown = loc[s].session_ids
           /\ Has(loc'[s].session_num)
           /\ ~ValidIndex(Val(loc'[s].session_num), Len(loc[s].session_ids)))
              => (/\ pc'[s] = "done"
                  /\ cli' = cli
                  /\ stateFiles' = stateFiles)]_vars

\* C18 (as claimed): when the CLI started by continue or new exits and the
\* last line of the log gives no session id, get_terminal_last_session
\* returns afterwards what it returned before.
C18_NoIdKeepsState ==
    [][\A s \in Shells :
          (/\ pc[s] = "cli" /\ pc'[s] = "done"
           /\ loc[s].branch \in {"continue", "new"}
           /\ TailSessionId(historyLog) = "")
              => get_terminal_last_session(stateFiles', termId[s])
                    = get_terminal_last_session(stateFiles, termId[s])]_vars

C27_ResumesTheSessionShown ==
    [][\A s \in Shells :
          /\ (/\ pc[s] = "asknum"
              /\ Has(loc'[s].session_num)
              /\ ValidIndex(Val(loc'[s].session_num), Len(loc[s].shown)))
                 => (/\ pc'[s] = "cli"
                     /\ cli'[s].mode = "resume"
                     /\ cli'[s].arg = loc[s].shown[Val(loc'[s].session_num).n])
          /\ (pc[s] = "cli" /\ pc'[s] = "done" /\ loc[s].branch = "resume")
                 => (/\ stateFiles'[termId[s]].exists
                     /\ stateFiles'[termId[s]].sessionId = cli[s].arg)]_vars

\* the file holds the access token it held before any refresh
HoldsOldTokens ==
    /\ credFile.kind = "json"
    /\ Has(credFile.claudeAiOauth)
    /\ Val(credFile.claudeAiOauth).accessToken = <<"at0">>

\* C26 (as claimed, under SpecRace): once the refresh_token of one terminal
\* has written new tokens and returned 0, the credentials file does not hold
\* the old tokens again, whatever the other terminal's refresh_token does.
C26_NoRevertAfterSuccess ==
    (\E s \in Shells : refreshers[s].pc = "done" /\ refreshers[s].rc = 0)
        => ~HoldsOldTokens

(***************************************************************************)
(* Claim about the setup script, checked under SpecSetup.                  *)
(***************************************************************************)
\* C20 (as claimed): whatever the credentials file holds and however the
\* refresh request and the installation end, the shell that sources the
\* setup script from the bashrc is not terminated by it: where the
\* directories and links can be made, the shell never exits.
C20_SetupNeverEndsShell ==
    setup.pc = "exited" => setup.fsFailed

\* C28 (as claimed): from the start of the shell to the end of the setup
\* script, the refresher sourced at line 114 and the expiry check of lines
\* 117-184 together send at most one request to the token endpoint.
C28_OneRequestPerShellStart ==
    setup.nreq <= 1

\* C30: when the setup script removes a ~/.claude that is a real directory,
\* every file of that directory is in the persistent directory afterwards.
C30_SetupKeepsHomeFiles ==
    [][(Step1to3 /\ fs.claudeLink.kind = "dir" /\ fs'.claudeLink.kind # "dir")
          => /\ fs'.dirs[CLAUDE_PERSISTENT(fs)] # Absent
             /\ NamesOf(fs.claudeLink.files)
                   \subseteq NamesOf(fs'.dirs[CLAUDE_PERSISTENT(fs)][1])]_vars

\* C29: the installer links the binary to the greatest version in numeric
\* order, as the setup script does, so that the setup script sourced after a
\* completed installer run leaves the binary link as it is.
C29_SameLatestVersion ==
    [][/\ SetUpSymlinks
          => LET versions == VersionsIn(fs'.dirs, claudeVersionsDir)
             IN versions # {} => fs'.binLink = <<LastOfSortV(versions)>>
       /\ (Step4 /\ inst.pc = "done" /\ setup'.pc = "auth"
                 /\ VersionsIn(fs.dirs, claudeVersionsDir) # {})
          => fs'.binLink = fs.binLink]_vars

\* C23: when the installer replaces a real directory ~/.claude by the link,
\* every file of the directory, hidden ones included, is in the persistent
\* directory, and the files that were there are as they were.
C23_InstallerMovesHomeFiles ==
    [][(SetUpSymlinks /\ fs.claudeLink.kind = "dir")
          => /\ fs'.claudeLink = LinkTo(inst.claudePersistentDir)
             /\ NamesOf(fs.claudeLink.files)
                   \subseteq NamesOf(fs'.dirs[inst.claudePersistentDir][1])
             /\ fs.dirs[inst.claudePersistentDir][1]
                   \subseteq fs'.dirs[inst.claudePersistentDir][1]]_vars

\* C22: without override variables, each old location that exists when the
\* installer starts, while its new location does not, has been copied to the
\* new location when the installer is done, and still holds its data.
C22_UpgradeCopiesOldData ==
    (inst.pc = "done" /\ inst.start.env = NoEnv)
        => \A k \in DOMAIN newLocations :
              (inst.start.dirs[oldLocations[k]] # Absent
                    /\ inst.start.dirs[newLocations[k]] = Absent)
                 => /\ fs.dirs[newLocations[k]] # Absent
                    /\ inst.start.dirs[oldLocations[k]][1] \subseteq fs.dirs[newLocations[k]][1]
                    /\ fs.dirs[oldLocations[k]] = inst.start.dirs[oldLocations[k]]

\* C21: a second run of the installer on what its first run left, no shell
\* having read the bashrc and nothing downloaded by the second run, leaves
\* .replit, .gitignore, the bashrc, the set of directories and the three
\* links as the first run left them.
C21_SecondRunChangesNothing ==
    (/\ inst.pc = "done" /\ inst.runs = 2 /\ setup.pc = "bashrc"
     /\ VersionsIn(fs.dirs, claudeVersionsDir)
           = VersionsIn(inst.first[1].dirs, claudeVersionsDir))
        => /\ fs.replit = inst.first[1].replit
           /\ fs.gitignore = inst.first[1].gitignore
           /\ fs.bashrc = inst.first[1].bashrc
           /\ { d \in InstallDirs : fs.dirs[d] # Absent }
                 = { d \in InstallDirs : inst.first[1].dirs[d] # Absent }
           /\ fs.claudeLink = inst.first[1].claudeLink
           /\ fs.codexLink = inst.first[1].codexLink
           /\ fs.binLink = inst.first[1].binLink

\* C25: when the installer is done, the Claude and the Codex directory it
\* configured, where they lie in the workspace, are covered by an entry of
\* .gitignore.
C25_PersistentDirsIgnored ==
    inst.pc = "done"
        => \A d \in {inst.claudePersistentDir, inst.codexPersistentDir} :
              InsideWorkspace(d)
                 => fs.gitignore # Absent /\ IgnoredBy(fs.gitignore[1], d)

\* the directory of C24: the value of the first override variable that is
\* set, when it starts with the path of the workspace, the default otherwise
OverrideOrDefault(names, defaultDir) ==
    LET set == { i \in 1..Len(names) : inst.start.env[names[i]] # Absent }
        first == CHOOSE i \in set : \A j \in set : i <= j
    IN IF set # {} /\ StartsWithWorkspace(inst.start.env[names[first]][1])
       THEN inst.start.env[names[first]][1]
       ELSE defaultDir

====
